---- MODULE Spec2Model ----
(***************************************************************************)
(* Orchestration core of the website analyzer: the competitor pipeline     *)
(* (routes/competitor.js, discoveryService.js, batchAnalyzer.js,           *)
(* comparativeAnalyzer.js) and the completion provider chain               *)
(* (llmService.js).  Every await of the JavaScript code is a position of   *)
(* the handler (pc); the step between two awaits is one action.            *)
(***************************************************************************)
EXTENDS Integers, Sequences, FiniteSets, TLC

(* ---------------------------------------------------------------------- *)
(* Bounds                                                                  *)
(* ---------------------------------------------------------------------- *)
\* number of POST /api/competitor/analyze-3-1 requests in flight
MaxReq == 1
\* number of generateCompletion calls made one after the other
MaxCalls == 2
\* calls of runNLPAnalysis, and advances of the clock between their steps
MaxNlpCalls == 2
MaxTicks == 2
\* largest value and band edge given to penaltyFromMetric, in halves
MaxMetric == 6
\* minor violations of a page given to calculateUXScore
MaxMinor == 1
\* largest website_health_score of a report given to generateComparison
MaxScore == 2\* rule-based issues (and fixes) of a module given to enhanceModulesWithAI
MaxRuleItems == 1\* requests the dashboard issues
MaxPolls == 4\* words of a text given to analyzeSentiment
MaxWords == 4
Reqs == 1..MaxReq

None == "none"

(* ---------------------------------------------------------------------- *)
(* Strings.  A string is a sequence of tokens, so that startsWith and      *)
(* includes are computed on it.                                            *)
(* ---------------------------------------------------------------------- *)
StartsWith(s, t) == Len(s) >= 1 /\ s[1] = t
Includes(s, t) == \E i \in 1..Len(s) : s[i] = t

(* ---------------------------------------------------------------------- *)
(* Report collection (models/Report): one stored report.                   *)
(* ---------------------------------------------------------------------- *)
Reports == [r1 |-> [url |-> <<"my", "shop", ".com">>]]
ReportIds == DOMAIN Reports
\* req.body.userReportId: absent, the id of a stored report, an unknown id
Bodies == {None, "r1", "r9"}

(* ---------------------------------------------------------------------- *)
(* discoveryService.js                                                     *)
(* ---------------------------------------------------------------------- *)
FALLBACK_COMPETITORS ==
  [ecommerce |-> << <<"amazon.com">>, <<"flipkart.com">>, <<"myntra.com">> >>,
   fooddelivery |-> << <<"swiggy.com">>, <<"zomato.com">>, <<"ubereats.com">> >>,
   furniture |-> << <<"urbanladder.com">>, <<"pepperfry.com">>, <<"ikea.com">> >>,
   saas |-> << <<"salesforce.com">>, <<"hubspot.com">>, <<"zendesk.com">> >>,
   default |-> << <<"example1.com">>, <<"example2.com">>, <<"example3.com">> >>]

\* reason of a competitor: the text either contains the word 'Fallback' or
\* not, and names the domain it was written for
Reason(isFallback, domain) == [fallback |-> isFallback, of |-> domain]

useFallbackCompetitors(userDomain) ==
  LET industry ==
        IF Includes(userDomain, "food") \/ Includes(userDomain, "restaurant")
          THEN "fooddelivery"
        ELSE IF Includes(userDomain, "shop") \/ Includes(userDomain, "store")
          THEN "ecommerce"
        ELSE IF Includes(userDomain, "furniture") \/ Includes(userDomain, "home")
          THEN "furniture"
        ELSE "default"
      fallbackDomains == FALLBACK_COMPETITORS[industry]
  IN [kind |-> "array",
      items |-> [i \in 1..Len(fallbackDomains) |->
                   [domain |-> fallbackDomains[i],
                    reason |-> Reason(TRUE, fallbackDomains[i])]]]

\* competitors an AI answer may list, in the order of the answer; the
\* domains come with and without a scheme
AiDomains == << <<"a.com">>, <<"http", "s", "://", "b.com">>,
                <<"http", "bin.org">>, <<"d.com">> >>
AiCompetitors == [i \in 1..Len(AiDomains) |->
                    [domain |-> AiDomains[i], reason |-> Reason(FALSE, AiDomains[i])]]

\* What generateCompletion resolved to, as discovery reads it:
\*   nonstring  not a string (aiResponse.match throws)
\*   nobrace    text without {...} (the mock string, prose, an error text)
\*   badjson    {...} that JSON.parse rejects
\*   nokeys     a JSON object without "competitors"
\*   string     a JSON object whose "competitors" is a string of length >= 2
\*   n0..n4     a JSON object whose "competitors" is an array of 0..4 entries
DiscoveryResponses ==
  {"nonstring", "nobrace", "badjson", "nokeys", "string", "n0", "n1", "n2", "n3", "n4"}
ParsedCount(ai) ==
  CASE ai = "n0" -> 0 [] ai = "n1" -> 1 [] ai = "n2" -> 2 [] ai = "n3" -> 3
    [] ai = "n4" -> 4 [] OTHER -> 0

Min(a, b) == IF a <= b THEN a ELSE b

discoverTop3Competitors(userDomain, ai) ==
  IF ai \in {"nonstring", "nobrace", "badjson", "nokeys"}
    THEN useFallbackCompetitors(userDomain)
  ELSE IF ai = "string"
    THEN [kind |-> "string", items |-> <<>>]
  ELSE IF ParsedCount(ai) >= 2
    THEN [kind |-> "array", items |-> SubSeq(AiCompetitors, 1, Min(3, ParsedCount(ai)))]
  ELSE useFallbackCompetitors(userDomain)

(* ---------------------------------------------------------------------- *)
(* batchAnalyzer.js                                                        *)
(* ---------------------------------------------------------------------- *)
Scheme == <<"http", "s", "://">>
NormalizeUrl(url) == IF StartsWith(url, "http") THEN url ELSE Scheme \o url

normalizedUrls(competitorUrls) ==
  [i \in 1..Min(3, Len(competitorUrls)) |-> NormalizeUrl(competitorUrls[i])]

\* a promise handed to Promise.allSettled and, once settled, its result
PendingTask(url) == [status |-> "pending", value |-> [url |-> url]]
IsFulfilled(result) == result.status = "fulfilled"
AllSettled(analyses) == \A i \in 1..Len(analyses) : analyses[i].status # "pending"

SeqMap(Op(_), s) == [i \in 1..Len(s) |-> Op(s[i])]
ValueOf(result) == result.value

\* a batch that gives up at the first rejection, as Promise.all would
successfulAnalysesAll(analyses) ==
  IF \E i \in 1..Len(analyses) : ~IsFulfilled(analyses[i])
    THEN <<>>
    ELSE SeqMap(ValueOf, analyses)

successfulAnalyses(analyses) == SeqMap(ValueOf, SelectSeq(analyses, IsFulfilled))

MinSuccessful == 2

\* the value analyze3Competitors settles with, once all analyses have settled
analyze3Competitors(analyses) ==
  IF Len(successfulAnalyses(analyses)) < MinSuccessful
    THEN [kind |-> "threw", items |-> <<>>]
    ELSE [kind |-> "array",
          items |-> SubSeq(successfulAnalyses(analyses), 1,
                           Min(3, Len(successfulAnalyses(analyses))))]

(* ---------------------------------------------------------------------- *)
(* comparativeAnalyzer.js                                                  *)
(* ---------------------------------------------------------------------- *)
\* What generateCompletion resolved to, as generateComparison reads it:
\* nonstring, nobrace, badjson as above; nokeys is a JSON object without
\* overall_ranking or your_competitive_position; valid has both
ComparisonResponses == {"nonstring", "nobrace", "badjson", "nokeys", "valid"}

generateComparison(ai) == IF ai = "valid" THEN "ai" ELSE "fallback"

(* ---------------------------------------------------------------------- *)
(* State                                                                   *)
(* ---------------------------------------------------------------------- *)
VARIABLES
  pc,                \* position of each request's handler / continuation
  body,              \* req.body.userReportId of each request
  log,               \* what each request has done so far, in order
  doc,               \* the competitorComparison document held by the handler
  db,                \* the persisted comparison record of each request
  competitors,       \* result of discoverTop3Competitors
  analyses,          \* the promises given to Promise.allSettled
  competitorReports, \* result of analyze3Competitors
  saveThrew,         \* whether a save of the record has rejected
  apiKey,            \* LLMService.apiKey (GROQ_API_KEY) is set
  hfKey,             \* process.env.HF_API_KEY is set
  llmPc,             \* position of generateCompletion
  prompt,            \* its prompt argument
  calls,             \* provider calls of this invocation, with their outcome
  silent,            \* the provider being called never answers
  result,            \* what the returned promise settled with
  nCalls,            \* invocations made so far
  exInput,           \* the model output handed to the extraction call sites
  exResult,          \* what each call site returned for it
  nlpCache,          \* the cache Map of nlpService.js, in insertion order
  now,               \* Date.now()
  nTicks,            \* advances of the clock so far
  nlpCall,           \* each call of runNLPAnalysis: position, text, result
  uxInput,           \* the arguments of the call of calculateUXScore
  uxResult,          \* what it returned
  pmBand,            \* good and bad of the calls of penaltyFromMetric
  pmCalls,           \* its last two calls: value and penalty
  cmpInput,          \* the arguments of the call of generateComparison
  cmpResult,         \* what it returned
  enInput,           \* modules, completions and key of enhanceModulesWithAI
  enResult,          \* its position and what it returned
  srvStatus,         \* status of the persisted comparison the dashboard polls
  dashMounted,       \* isMounted of the dashboard effect
  dashInterval,      \* pollInterval is set
  dashFlight,        \* fetches in flight
  dashComparison,    \* status of the comparison in the component state
  dashPolls,         \* requests issued so far
  dashUpdates,       \* state updates made so far
  saInput,           \* text and key of analyzeSentiment
  saResult           \* its position and what it returned

pipeVars == <<pc, body, log, doc, db, competitors, analyses, competitorReports,
              saveThrew>>
llmVars == <<apiKey, hfKey, llmPc, prompt, calls, silent, result, nCalls>>
exVars == <<exInput, exResult>>
nlpVars == <<nlpCache, now, nTicks, nlpCall>>
uxVars == <<uxInput, uxResult, pmBand, pmCalls>>
cmpVars == <<cmpInput, cmpResult>>
enVars == <<enInput, enResult>>
dashVars == <<srvStatus, dashMounted, dashInterval, dashFlight, dashComparison,
              dashPolls, dashUpdates>>
saVars == <<saInput, saResult>>
lateVars == <<cmpVars, enVars, dashVars, saVars>>
\* the state of the components other than the pipeline and the provider chain
otherVars == <<exVars, nlpVars, uxVars, lateVars>>
vars == <<pipeVars, llmVars, otherVars>>

StatusEnum == {"pending", "analyzing", "completed", "failed"}
DefaultStatus == "pending"
Terminal == {"completed", "failed"}

NoDoc == [status |-> None, competitors |-> <<>>, comparison |-> None]
NewComparison(status) == [status |-> status, competitors |-> <<>>, comparison |-> None]
NoList == [kind |-> None, items |-> <<>>]

\* a save returns, or rejects; a rejected write may or may not have reached
\* the collection
SaveOutcomes == {"ok", "throw", "throw_applied"}
FindOutcomes == {"result", "throw"}

PipeInit ==
  /\ pc = [r \in Reqs |-> "idle"]
  /\ body = [r \in Reqs |-> None]
  /\ log = [r \in Reqs |-> <<>>]
  /\ doc = [r \in Reqs |-> NoDoc]
  /\ db = [r \in Reqs |-> NoDoc]
  /\ competitors = [r \in Reqs |-> NoList]
  /\ analyses = [r \in Reqs |-> <<>>]
  /\ competitorReports = [r \in Reqs |-> NoList]
  /\ saveThrew = [r \in Reqs |-> FALSE]

Persist(r, outcome, d) ==
  /\ db' = IF outcome \in {"ok", "throw_applied"} THEN [db EXCEPT ![r] = d] ELSE db
  /\ saveThrew' = IF outcome = "ok" THEN saveThrew ELSE [saveThrew EXCEPT ![r] = TRUE]

\* a catch block that only logs the error
CatchLogOnly(r, d) ==
  /\ doc' = [doc EXCEPT ![r] = d]
  /\ pc' = [pc EXCEPT ![r] = "saveFailed"]
  /\ log' = log

\* catch (error) of the background continuation: mark failed, save again
Catch(r, d) ==
  /\ doc' = [doc EXCEPT ![r] = [d EXCEPT !.status = "failed"]]
  /\ pc' = [pc EXCEPT ![r] = "saveFailed"]
  /\ log' = log

(* ---------------------------------------------------------------------- *)
(* POST /api/competitor/analyze-3-1                                        *)
(* ---------------------------------------------------------------------- *)
\* a handler that looks the report up without validating the body
PostNoValidation(r, b) ==
  /\ pc[r] = "idle"
  /\ body' = [body EXCEPT ![r] = b]
  /\ pc' = [pc EXCEPT ![r] = "findById"]
  /\ UNCHANGED <<log, doc, db, competitors, analyses, competitorReports, saveThrew, llmVars, otherVars>>

\* the request arrives; the handler runs up to Report.findById
Post(r, b) ==
  /\ pc[r] = "idle"
  /\ body' = [body EXCEPT ![r] = b]
  /\ IF b = None
       THEN /\ log' = [log EXCEPT ![r] = Append(@, "res400")]
            /\ pc' = [pc EXCEPT ![r] = "end"]
       ELSE /\ pc' = [pc EXCEPT ![r] = "findById"]
            /\ log' = log
  /\ UNCHANGED <<doc, db, competitors, analyses, competitorReports, saveThrew, llmVars, otherVars>>

\* Report.findById settles; on a hit the record is built and save is called
FindByIdReturn(r, outcome) ==
  /\ pc[r] = "findById"
  /\ IF outcome = "throw"
       THEN /\ log' = [log EXCEPT ![r] = Append(@, "res500")]
            /\ pc' = [pc EXCEPT ![r] = "end"]
            /\ doc' = doc
     ELSE IF body[r] \notin ReportIds
       THEN /\ log' = [log EXCEPT ![r] = Append(@, "res404")]
            /\ pc' = [pc EXCEPT ![r] = "end"]
            /\ doc' = doc
       ELSE /\ doc' = [doc EXCEPT ![r] = NewComparison("analyzing")]
            /\ pc' = [pc EXCEPT ![r] = "saveNew"]
            /\ log' = log
  /\ UNCHANGED <<body, db, competitors, analyses, competitorReports, saveThrew, llmVars, otherVars>>

\* a handler that answers and starts the continuation without awaiting save
SaveNewNotAwaited(r, outcome) ==
  /\ pc[r] = "saveNew"
  /\ Persist(r, outcome, doc[r])
  /\ log' = [log EXCEPT ![r] =
       IF outcome = "ok" THEN @ \o <<"res200", "discovery", "saved">>
                         ELSE @ \o <<"res200", "discovery">>]
  /\ pc' = [pc EXCEPT ![r] = "discover"]
  /\ UNCHANGED <<body, doc, competitors, analyses, competitorReports, llmVars, otherVars>>

\* the first save settles; on success the response is sent and the
\* background continuation runs up to the completion call of discovery
SaveNewReturn(r, outcome) ==
  /\ pc[r] = "saveNew"
  /\ Persist(r, outcome, doc[r])
  /\ IF outcome = "ok"
       THEN /\ log' = [log EXCEPT ![r] = @ \o <<"saved", "res200", "discovery">>]
            /\ pc' = [pc EXCEPT ![r] = "discover"]
       ELSE /\ log' = [log EXCEPT ![r] = Append(@, "res500")]
            /\ pc' = [pc EXCEPT ![r] = "end"]
  /\ UNCHANGED <<body, doc, competitors, analyses, competitorReports, llmVars, otherVars>>

Domains(list) == [i \in 1..Len(list) |-> list[i].domain]

\* discovery settles; the continuation maps the competitors to domains and
\* launches the analyses
DiscoverReturn(r, ai) ==
  /\ pc[r] = "discover"
  /\ LET found == discoverTop3Competitors(Reports[body[r]].url, ai) IN
       /\ competitors' = [competitors EXCEPT ![r] = found]
       /\ IF found.kind # "array"
            THEN /\ Catch(r, doc[r])
                 /\ analyses' = analyses
            ELSE /\ analyses' = [analyses EXCEPT ![r] =
                        SeqMap(PendingTask, normalizedUrls(Domains(found.items)))]
                 /\ pc' = [pc EXCEPT ![r] = "analyze"]
                 /\ doc' = doc
                 /\ log' = log
  /\ UNCHANGED <<body, db, competitorReports, saveThrew, llmVars, otherVars>>

\* one competitor analysis settles
TaskSettle(r, i, status) ==
  /\ pc[r] = "analyze"
  /\ i \in 1..Len(analyses[r])
  /\ analyses[r][i].status = "pending"
  /\ analyses' = [analyses EXCEPT ![r][i].status = status]
  /\ UNCHANGED <<pc, body, log, doc, db, competitors, competitorReports, saveThrew, llmVars, otherVars>>

\* Promise.allSettled resolves; analyze3Competitors returns or throws, and
\* on return generateComparison runs up to its completion call
AnalyzeReturn(r) ==
  /\ pc[r] = "analyze"
  /\ AllSettled(analyses[r])
  /\ LET reports == analyze3Competitors(analyses[r]) IN
       /\ competitorReports' = [competitorReports EXCEPT ![r] = reports]
       /\ IF reports.kind = "threw"
            THEN Catch(r, doc[r])
            ELSE /\ pc' = [pc EXCEPT ![r] = "compare"]
                 /\ doc' = doc
                 /\ log' = log
  /\ UNCHANGED <<body, db, competitors, analyses, saveThrew, llmVars, otherVars>>

\* competitors[idx]?.reason?.includes('Fallback') ? 'fallback' : 'ai'
CompetitorEntry(report, idx, found) ==
  [domain |-> report.url,
   discovery_method |-> IF found[idx].reason.fallback THEN "fallback" ELSE "ai",
   rank |-> idx,
   reason |-> found[idx].reason]

\* a comparison step that lets a failed AI comparison escape
CompareReturnThrows(r, ai) ==
  /\ pc[r] = "compare"
  /\ IF ai = "valid"
       THEN /\ doc' = [doc EXCEPT ![r] =
                 [status |-> "completed",
                  competitors |-> [idx \in 1..Len(competitorReports[r].items) |->
                                     CompetitorEntry(competitorReports[r].items[idx], idx,
                                                     competitors[r].items)],
                  comparison |-> generateComparison(ai)]]
            /\ pc' = [pc EXCEPT ![r] = "saveFinal"]
            /\ log' = log
       ELSE Catch(r, doc[r])
  /\ UNCHANGED <<body, db, competitors, analyses, competitorReports, saveThrew, llmVars, otherVars>>

\* generateComparison settles; the record is filled in and saved
CompareReturn(r, ai) ==
  /\ pc[r] = "compare"
  /\ doc' = [doc EXCEPT ![r] =
       [status |-> "completed",
        competitors |-> [idx \in 1..Len(competitorReports[r].items) |->
                           CompetitorEntry(competitorReports[r].items[idx], idx,
                                           competitors[r].items)],
        comparison |-> generateComparison(ai)]]
  /\ pc' = [pc EXCEPT ![r] = "saveFinal"]
  /\ UNCHANGED <<body, log, db, competitors, analyses, competitorReports, saveThrew, llmVars, otherVars>>

\* the save of the completed record settles
SaveFinalReturn(r, outcome) ==
  /\ pc[r] = "saveFinal"
  /\ Persist(r, outcome, doc[r])
  /\ IF outcome = "ok"
       THEN /\ pc' = [pc EXCEPT ![r] = "end"]
            /\ doc' = doc
            /\ log' = log
       ELSE Catch(r, doc[r])
  /\ UNCHANGED <<body, competitors, analyses, competitorReports, llmVars, otherVars>>

\* the save made by the catch block settles; nothing catches its rejection
SaveFailedReturn(r, outcome) ==
  /\ pc[r] = "saveFailed"
  /\ Persist(r, outcome, doc[r])
  /\ pc' = [pc EXCEPT ![r] = IF outcome = "ok" THEN "end" ELSE "unhandledRejection"]
  /\ UNCHANGED <<body, log, doc, competitors, analyses, competitorReports, llmVars, otherVars>>

PipeNext ==
  \/ \E r \in Reqs, b \in Bodies : Post(r, b)
  \/ \E r \in Reqs, o \in FindOutcomes : FindByIdReturn(r, o)
  \/ \E r \in Reqs, o \in SaveOutcomes : SaveNewReturn(r, o)
  \/ \E r \in Reqs, ai \in DiscoveryResponses : DiscoverReturn(r, ai)
  \/ \E r \in Reqs, i \in 1..3, s \in {"fulfilled", "rejected"} : TaskSettle(r, i, s)
  \/ \E r \in Reqs : AnalyzeReturn(r)
  \/ \E r \in Reqs, ai \in ComparisonResponses : CompareReturn(r, ai)
  \/ \E r \in Reqs, o \in SaveOutcomes : SaveFinalReturn(r, o)
  \/ \E r \in Reqs, o \in SaveOutcomes : SaveFailedReturn(r, o)

(* ---------------------------------------------------------------------- *)
(* llmService.js: LLMService.generateCompletion                            *)
(* ---------------------------------------------------------------------- *)
Prompts == {"p1", "p2"}

\* text produced by a provider for a prompt
ProviderText(provider, p) == [type |-> "string", src |-> provider, about |-> p]
\* data.choices[0].message.content / generated_text that is not there
Undefined == [type |-> "undefined", src |-> None, about |-> None]
MockString == [type |-> "string", src |-> "mock", about |-> None]

_getMockResponse(p) == MockString

\* outcomes of a provider call that throw inside its try block
Failures == {"network_error", "non2xx", "json_throws", "no_choices",
             "throw", "empty", "timeout"}
\* fetch(): rejects, answers with a non-2xx status, answers with 2xx
GroqFetchOutcomes == {"network_error", "non2xx", "ok"}
\* response.json() and data.choices[0].message.content: json() rejects, the
\* body has no choices[0].message, the message has no content, there is text
GroqJsonOutcomes == {"json_throws", "no_choices", "no_content", "text"}
\* callHF: rejects, answers [] or null, answers without generated_text, text
HFOutcomes == {"throw", "empty", "notext", "text"}

NoResult == [kind |-> None, value |-> Undefined]
PendingResult == [kind |-> "pending", value |-> Undefined]
Resolved(v) == [kind |-> "resolved", value |-> v]
Rejected == [kind |-> "rejected", value |-> Undefined]

Call(provider) == [provider |-> provider, outcome |-> "pending"]
SetOutcome(cs, o) == [cs EXCEPT ![Len(cs)].outcome = o]

LLMIdle ==
  /\ llmPc = "idle"
  /\ prompt = None
  /\ calls = <<>>
  /\ silent = FALSE
  /\ result = NoResult
  /\ nCalls = 0

\* a chain that asks HuggingFace before Groq
FirstProviderHF(groq, hf) == IF hf THEN "hf" ELSE IF groq THEN "groq" ELSE "mock"

\* if (this.apiKey) ... if (process.env.HF_API_KEY) ... mock
FirstProvider(groq, hf) == IF groq THEN "groq" ELSE IF hf THEN "hf" ELSE "mock"

\* control after the Groq block has been left through its catch
AfterGroq(hf) == IF hf THEN "hf" ELSE "mock"

\* control reaches provider `next` with the calls made so far
Proceed(next, cs, s) ==
  IF next = "groq"
    THEN /\ llmPc' = "groqFetch"
         /\ calls' = Append(cs, Call("groq"))
         /\ silent' = s
         /\ result' = PendingResult
  ELSE IF next = "hf"
    THEN /\ llmPc' = "hfCall"
         /\ calls' = Append(cs, Call("hf"))
         /\ silent' = s
         /\ result' = PendingResult
  ELSE /\ llmPc' = "idle"
       /\ calls' = cs
       /\ silent' = FALSE
       /\ result' = Resolved(_getMockResponse(prompt'))

\* generateCompletion(prompt) is called and runs up to its first await
GenerateCompletion(p, s) ==
  /\ llmPc = "idle"
  /\ nCalls < MaxCalls
  /\ nCalls' = nCalls + 1
  /\ prompt' = p
  /\ Proceed(FirstProvider(apiKey, hfKey), <<>>, s)
  /\ UNCHANGED <<apiKey, hfKey, pipeVars, otherVars>>

\* fetch() to Groq settles
GroqFetchReturn(o, s) ==
  /\ llmPc = "groqFetch"
  /\ ~silent
  /\ prompt' = prompt
  /\ IF o = "ok"
       THEN /\ llmPc' = "groqJson"
            /\ silent' = s
            /\ UNCHANGED <<calls, result>>
       ELSE Proceed(AfterGroq(hfKey), SetOutcome(calls, o), s)
  /\ UNCHANGED <<apiKey, hfKey, nCalls, pipeVars, otherVars>>

\* response.json() settles and the content is read
GroqJsonReturn(o, s) ==
  /\ llmPc = "groqJson"
  /\ ~silent
  /\ prompt' = prompt
  /\ IF o = "text"
       THEN /\ result' = Resolved(ProviderText("groq", prompt))
            /\ calls' = SetOutcome(calls, o)
            /\ llmPc' = "idle"
            /\ silent' = FALSE
     ELSE IF o = "no_content"
       THEN /\ result' = Resolved(Undefined)
            /\ calls' = SetOutcome(calls, o)
            /\ llmPc' = "idle"
            /\ silent' = FALSE
       ELSE Proceed(AfterGroq(hfKey), SetOutcome(calls, o), s)
  /\ UNCHANGED <<apiKey, hfKey, nCalls, pipeVars, otherVars>>

\* a HuggingFace block without its catch
HFReturnRejects(o) ==
  /\ llmPc = "hfCall"
  /\ ~silent
  /\ prompt' = prompt
  /\ calls' = SetOutcome(calls, o)
  /\ llmPc' = "idle"
  /\ silent' = FALSE
  /\ result' = IF o = "text" THEN Resolved(ProviderText("hf", prompt))
               ELSE IF o = "notext" THEN Resolved(Undefined)
               ELSE Rejected
  /\ UNCHANGED <<apiKey, hfKey, nCalls, pipeVars, otherVars>>

\* llmAdapter.callHF settles and generated_text is read
HFReturn(o) ==
  /\ llmPc = "hfCall"
  /\ ~silent
  /\ prompt' = prompt
  /\ IF o = "text"
       THEN /\ result' = Resolved(ProviderText("hf", prompt))
            /\ calls' = SetOutcome(calls, o)
            /\ llmPc' = "idle"
            /\ silent' = FALSE
     ELSE IF o = "notext"
       THEN /\ result' = Resolved(Undefined)
            /\ calls' = SetOutcome(calls, o)
            /\ llmPc' = "idle"
            /\ silent' = FALSE
       ELSE Proceed("mock", SetOutcome(calls, o), FALSE)
  /\ UNCHANGED <<apiKey, hfKey, nCalls, pipeVars, otherVars>>

\* the bounded call timeout of a HuggingFace call that is not answered
HFTimeout ==
  /\ llmPc = "hfCall"
  /\ silent
  /\ prompt' = prompt
  /\ Proceed("mock", SetOutcome(calls, "timeout"), FALSE)
  /\ UNCHANGED <<apiKey, hfKey, nCalls, pipeVars, otherVars>>

LLMNext ==
  \/ \E p \in Prompts, s \in BOOLEAN : GenerateCompletion(p, s)
  \/ \E o \in GroqFetchOutcomes, s \in BOOLEAN : GroqFetchReturn(o, s)
  \/ \E o \in GroqJsonOutcomes, s \in BOOLEAN : GroqJsonReturn(o, s)
  \/ \E o \in HFOutcomes : HFReturn(o)
  \/ HFTimeout

(* ---------------------------------------------------------------------- *)
(* Extraction of a JSON object from model output: safeParse                *)
(* (moduleEnhancer.js), discoverTop3Competitors, generateComparison,       *)
(* InsightGenerator.generateInsights                                       *)
(* ---------------------------------------------------------------------- *)
\* longest model output, in tokens
MaxTextLen == 4

\* A text is a sequence of tokens: "p" a piece of prose, "{" and "}", "k"
\* the members that carry the keys the call site requires, "f" a markdown
\* code fence (``` or ```json).  Inside an object a "{" opens the object
\* value of a further member.
Alphabet == {"p", "{", "}", "k", "f"}
Texts == UNION {[1..n -> Alphabet] : n \in 0..MaxTextLen}
\* what generateCompletion resolves to: a text, or undefined (not a string)
ModelOutputs == {[isString |-> TRUE, text |-> t] : t \in Texts}
                  \cup {[isString |-> FALSE, text |-> <<>>]}

Positions(t, tok) == {i \in 1..Len(t) : t[i] = tok}
SetMin(S) == CHOOSE x \in S : \A y \in S : x <= y
SetMax(S) == CHOOSE x \in S : \A y \in S : y <= x
\* number of objects open after the first i tokens
Depth(t, i) == Cardinality(Positions(t, "{") \cap 1..i)
                 - Cardinality(Positions(t, "}") \cap 1..i)

NoMatch == [found |-> FALSE, span |-> <<>>]

\* a scan that stops at the brace closing the first "{"
FirstBalancedMatch(t) ==
  LET opens == Positions(t, "{") IN
    IF opens = {} THEN NoMatch
    ELSE LET first == SetMin(opens)
             closes == {j \in first..Len(t) : Depth(t, j) = Depth(t, first) - 1}
         IN IF closes = {} THEN NoMatch
            ELSE [found |-> TRUE, span |-> SubSeq(t, first, SetMin(closes))]

\* text.match(/\{[\s\S]*\}/): from the first "{" to the last "}" after it
RegexMatch(t) ==
  LET opens == Positions(t, "{") IN
    IF opens = {} THEN NoMatch
    ELSE LET first == SetMin(opens)
             closes == {j \in Positions(t, "}") : j > first}
         IN IF closes = {} THEN NoMatch
            ELSE [found |-> TRUE, span |-> SubSeq(t, first, SetMax(closes))]

\* replace(/```json/g, '').replace(/```/g, '').trim()
StripFences(t) == SelectSeq(t, LAMBDA tok : tok # "f")

ParseError == [ok |-> FALSE, hasKeys |-> FALSE]
\* JSON.parse: the text must be one object and nothing else; the result
\* tells whether the object has the required keys as its own members
JsonParse(t) ==
  IF /\ Len(t) >= 2
     /\ t[1] = "{"
     /\ \A i \in 1..Len(t) : t[i] \in {"{", "}", "k"}
     /\ \A i \in 1..(Len(t) - 1) : Depth(t, i) >= 1
     /\ Depth(t, Len(t)) = 0
    THEN [ok |-> TRUE, hasKeys |-> \E i \in Positions(t, "k") : Depth(t, i) = 1]
    ELSE ParseError

\* safeParse: the AI items, and its fallback
AiItems == [issues |-> <<"ai issue">>, fixes |-> <<"ai fix">>]
NoItems == [issues |-> <<>>, fixes |-> <<>>]
Threw == [threw |-> TRUE]

\* safeParse without its try/catch
safeParseNoCatch(out) ==
  LET clean == StripFences(out.text)
      match == RegexMatch(clean)
  IN IF ~match.found THEN Threw
     ELSE IF ~JsonParse(match.span).ok THEN Threw
     ELSE IF JsonParse(match.span).hasKeys THEN AiItems ELSE NoItems

safeParse(out) ==
  LET clean == IF out.isString THEN StripFences(out.text) ELSE <<>>
      match == RegexMatch(clean)
  IN IF ~match.found THEN NoItems
     ELSE IF ~JsonParse(match.span).ok THEN NoItems
     ELSE IF JsonParse(match.span).hasKeys THEN AiItems ELSE NoItems

\* how discovery and comparison read the model output (DiscoveryResponses,
\* ComparisonResponses); an object with the keys lists 3 competitors
ResponseKind(out, withKeys) ==
  IF ~out.isString THEN "nonstring"
  ELSE LET match == RegexMatch(out.text) IN
    IF ~match.found THEN "nobrace"
    ELSE IF ~JsonParse(match.span).ok THEN "badjson"
    ELSE IF JsonParse(match.span).hasKeys THEN withKeys ELSE "nokeys"

\* generateInsights: the parsed data, the data used when parsing fails
InsightData == [executiveSummary |-> "ai summary", source |-> "ai"]
InsightDefaults == [executiveSummary |-> "Analysis completed.", source |-> "ai"]
InsightParseFallback ==
  [executiveSummary |-> "Analysis completed. Please review specific module scores for details.",
   source |-> "fallback"]

generateInsights(out) ==
  IF ~out.isString THEN InsightParseFallback
  ELSE LET data == JsonParse(StripFences(out.text)) IN
    IF ~data.ok THEN InsightParseFallback
    ELSE IF data.hasKeys THEN InsightData ELSE InsightDefaults

Sites == {"safeParse", "discovery", "comparison", "insights"}
NotCalled == [called |-> FALSE]

ExIdle ==
  /\ exInput = [isString |-> FALSE, text |-> <<>>]
  /\ exResult = [s \in Sites |-> NotCalled]

ExInit ==
  /\ exInput \in ModelOutputs
  /\ exResult = [s \in Sites |-> NotCalled]

notExVars == <<pipeVars, llmVars, nlpVars, uxVars, lateVars>>

SafeParseCall ==
  /\ exResult["safeParse"] = NotCalled
  /\ exResult' = [exResult EXCEPT !["safeParse"] = safeParse(exInput)]
  /\ UNCHANGED <<exInput, notExVars>>

DiscoveryCall ==
  /\ exResult["discovery"] = NotCalled
  /\ exResult' = [exResult EXCEPT !["discovery"] =
       discoverTop3Competitors(Reports["r1"].url, ResponseKind(exInput, "n3"))]
  /\ UNCHANGED <<exInput, notExVars>>

ComparisonCall ==
  /\ exResult["comparison"] = NotCalled
  /\ exResult' = [exResult EXCEPT !["comparison"] =
       [comparison |-> generateComparison(ResponseKind(exInput, "valid"))]]
  /\ UNCHANGED <<exInput, notExVars>>

InsightsCall ==
  /\ exResult["insights"] = NotCalled
  /\ exResult' = [exResult EXCEPT !["insights"] = generateInsights(exInput)]
  /\ UNCHANGED <<exInput, notExVars>>

ExNext == SafeParseCall \/ DiscoveryCall \/ ComparisonCall \/ InsightsCall

(* ---------------------------------------------------------------------- *)
(* nlpService.js: runNLPAnalysis and its in-memory cache                   *)
(* ---------------------------------------------------------------------- *)
CACHE_TTL == 60 * 60 * 1000
CACHE_MAX == 50

\* A text is known by its first 200 characters (head) and by the rest;
\* long is text.trim().length >= 20.
NlpTexts ==
  { [id |-> "t1", head |-> "a", long |-> TRUE],
    [id |-> "t2", head |-> "a", long |-> TRUE],
    [id |-> "t3", head |-> "b", long |-> TRUE],
    [id |-> "t0", head |-> "s", long |-> FALSE] }

cacheKey(text) == <<text.head, 0>>

Tasks == {"sentiment", "entities", "summary", "topics"}
FieldNames == {"sentiment", "entities", "keywords", "phrases", "summary",
               "topics", "advanced_readability"}

\* what a task that succeeds resolves with, and the value of its .catch
TaskResult(task, text) == [task |-> task, of |-> text.id]
TaskDefault(task, text) ==
  CASE task = "sentiment" -> [label |-> "NEUTRAL", confidence |-> 50]
    [] task = "entities"  -> <<>>
    [] task = "summary"   -> [firstTwoSentences |-> text.id]
    [] task = "topics"    -> <<>>

Settled(task, text, failed) ==
  IF task \in failed THEN TaskDefault(task, text) ELSE TaskResult(task, text)

\* the result object literal of lines 149-157
CombinedFields(text, failed) ==
  [sentiment |-> Settled("sentiment", text, failed),
   entities |-> Settled("entities", text, failed),
   keywords |-> [keywords |-> text.id],
   phrases |-> [phrases |-> text.id],
   summary |-> Settled("summary", text, failed),
   topics |-> Settled("topics", text, failed),
   advanced_readability |-> [readability |-> text.id]]

EmptyFields ==
  [sentiment |-> [label |-> "NEUTRAL", confidence |-> 50],
   entities |-> <<>>,
   keywords |-> <<>>,
   phrases |-> <<>>,
   summary |-> <<>>,
   topics |-> <<>>,
   advanced_readability |-> [readability |-> "zero"]]

\* An object is known by the call that created it (id): two objects with
\* equal fields are still two objects.
NoObject == [id |-> -1]
getEmptyResult(c) == [id |-> c, fields |-> EmptyFields]

\* The Map, in insertion order.
KeyIndexes(cache, key) == {i \in 1..Len(cache) : cache[i].key = key}
cacheHas(cache, key) == KeyIndexes(cache, key) # {}
cacheGet(cache, key) == cache[CHOOSE i \in KeyIndexes(cache, key) : TRUE]

\* Map.set: an existing key keeps its place, a new key goes last
cacheSet(cache, key, value) ==
  IF cacheHas(cache, key)
    THEN [i \in 1..Len(cache) |->
            IF cache[i].key = key THEN [key |-> key] @@ value ELSE cache[i]]
    ELSE Append(cache, [key |-> key] @@ value)

\* first entry of the entries sorted by ts (the sort is stable)
OldestIndex(cache) ==
  CHOOSE i \in 1..Len(cache) :
    /\ \A j \in 1..Len(cache) : cache[i].ts <= cache[j].ts
    /\ \A j \in 1..(i - 1) : cache[j].ts > cache[i].ts

RemoveAt(s, i) == [j \in 1..(Len(s) - 1) |-> IF j < i THEN s[j] ELSE s[j + 1]]

RECURSIVE DeleteOldest(_, _)
DeleteOldest(cache, n) ==
  IF n = 0 THEN cache
  ELSE DeleteOldest(RemoveAt(cache, OldestIndex(cache)), n - 1)

\* a prune that keeps the first CACHE_MAX entries of the Map
PruneNewest(cache) ==
  IF Len(cache) > CACHE_MAX THEN SubSeq(cache, 1, CACHE_MAX) ELSE cache

\* lines 163-168
Prune(cache) ==
  IF Len(cache) > CACHE_MAX
    THEN DeleteOldest(cache, Len(cache) - CACHE_MAX)
    ELSE cache

\* A cache that earlier calls have filled: the entry of text t1 is the
\* oldest one, CACHE_MAX - 1 entries of other texts follow it.
EarlierResult == [id |-> 0, fields |-> CombinedFields([id |-> "t1"], {})]
Prefilled ==
  <<[key |-> <<"a", 0>>, data |-> EarlierResult, ts |-> 0]>> \o
  [i \in 1..(CACHE_MAX - 1) |->
     [key |-> <<"other", i>>, data |-> [id |-> 0, fields |-> EmptyFields],
      ts |-> 1]]

NlpCalls == 1..MaxNlpCalls
IdleCall == [pc |-> "idle", text |-> [id |-> "none"], failed |-> {},
             ret |-> NoObject]

NlpIdle ==
  /\ nlpCache = <<>>
  /\ now = 1
  /\ nTicks = 0
  /\ nlpCall = [c \in NlpCalls |-> IdleCall]

NlpInit ==
  /\ nlpCache \in {<<>>, Prefilled}
  /\ now = 1
  /\ nTicks = 0
  /\ nlpCall = [c \in NlpCalls |-> IdleCall]

notNlpVars == <<pipeVars, llmVars, exVars, uxVars, lateVars>>

\* Date.now() moves on
Jumps == {1, CACHE_TTL - 1}
Tick(j) ==
  /\ nTicks < MaxTicks
  /\ now' = now + j
  /\ nTicks' = nTicks + 1
  /\ UNCHANGED <<nlpCache, nlpCall, notNlpVars>>

\* a lookup that does not look at the age of the entry
FreshAlways(cache, key, t) == cacheHas(cache, key)

\* line 113: cached && Date.now() - cached.ts < CACHE_TTL
Fresh(cache, key, t) ==
  cacheHas(cache, key) /\ t - cacheGet(cache, key).ts < CACHE_TTL

\* lines 105-139: up to the await of Promise.all
runNLPAnalysis(c, text) ==
  /\ nlpCall[c].pc = "idle"
  /\ c > 1 => nlpCall[c - 1].pc # "idle"
  /\ LET key == cacheKey(text)
         started == [IdleCall EXCEPT !.text = text]
     IN nlpCall' = [nlpCall EXCEPT ![c] =
          IF ~text.long
            THEN [started EXCEPT !.pc = "returned", !.ret = getEmptyResult(c)]
          ELSE IF Fresh(nlpCache, key, now)
            THEN [started EXCEPT !.pc = "returned",
                                 !.ret = cacheGet(nlpCache, key).data]
          ELSE [started EXCEPT !.pc = "tasks"]]
  /\ UNCHANGED <<nlpCache, now, nTicks, notNlpVars>>

\* Promise.all over the four tasks without their .catch
AllSettledNoCatch(c, failed) ==
  /\ nlpCall[c].pc = "tasks"
  /\ IF failed # {}
       THEN /\ nlpCall' = [nlpCall EXCEPT ![c].pc = "rejected",
                                          ![c].failed = failed]
            /\ UNCHANGED nlpCache
       ELSE LET text == nlpCall[c].text
                res == [id |-> c, fields |-> CombinedFields(text, failed)]
            IN /\ nlpCache' = Prune(cacheSet(nlpCache, cacheKey(text),
                                             [data |-> res, ts |-> now]))
               /\ nlpCall' = [nlpCall EXCEPT ![c].pc = "returned",
                                             ![c].failed = failed,
                                             ![c].ret = res]
  /\ UNCHANGED <<now, nTicks, notNlpVars>>

\* lines 139-170: the four tasks have settled, those of failed by rejecting
AllSettledReturn(c, failed) ==
  /\ nlpCall[c].pc = "tasks"
  /\ LET text == nlpCall[c].text
         res == [id |-> c, fields |-> CombinedFields(text, failed)]
     IN /\ nlpCache' = Prune(cacheSet(nlpCache, cacheKey(text),
                                      [data |-> res, ts |-> now]))
        /\ nlpCall' = [nlpCall EXCEPT ![c].pc = "returned",
                                      ![c].failed = failed,
                                      ![c].ret = res]
  /\ UNCHANGED <<now, nTicks, notNlpVars>>

\* the cache under several callers; which tasks fail varies little here
CacheRunFailures == {{}, {"sentiment", "topics"}}
NlpNext ==
  \/ \E j \in Jumps : Tick(j)
  \/ \E c \in NlpCalls, text \in NlpTexts : runNLPAnalysis(c, text)
  \/ \E c \in NlpCalls, failed \in CacheRunFailures : AllSettledReturn(c, failed)

\* one caller, every subset of the tasks failing
NlpTasksNext ==
  \/ \E j \in Jumps : Tick(j)
  \/ \E text \in NlpTexts : runNLPAnalysis(1, text)
  \/ \E failed \in SUBSET Tasks : AllSettledReturn(1, failed)

(* ---------------------------------------------------------------------- *)
(* UX module: clamp, penaltyFromMetric, calculateUXScore                   *)
(* A number that need not be whole is a fraction <<n, d>> with d > 0.      *)
(* ---------------------------------------------------------------------- *)
Frac(n, d) == <<n, d>>
Zero == Frac(0, 1)
One == Frac(1, 1)
FracLeq(x, y) == x[1] * y[2] <= y[1] * x[2]
FracLt(x, y) == x[1] * y[2] < y[1] * x[2]
FracEq(x, y) == x[1] * y[2] = y[1] * x[2]
FracMin(x, y) == IF FracLeq(x, y) THEN x ELSE y
FracMax(x, y) == IF FracLeq(y, x) THEN x ELSE y

\* a clamp that lets every value through
clampNone(value, min, max) == value

\* Math.max(min, Math.min(max, value))
clamp(value, min, max) == FracMax(min, FracMin(max, value))

\* a penalty that jumps to 1 right above good
penaltyFromMetricStep(value, good, bad) ==
  IF value <= good THEN Zero ELSE One

penaltyFromMetric(value, good, bad) ==
  IF value <= good THEN Zero
  ELSE IF value >= bad THEN One
  ELSE clamp(Frac(value - good, bad - good), Zero, One)

THRESHOLDS ==
  [VIOLATIONS_CRITICAL_GOOD |-> 0, VIOLATIONS_CRITICAL_BAD |-> 3,
   VIOLATIONS_SERIOUS_GOOD |-> 0, VIOLATIONS_SERIOUS_BAD |-> 5,
   VIOLATIONS_MODERATE_GOOD |-> 0, VIOLATIONS_MODERATE_BAD |-> 10,
   CTA_ABOVE_FOLD_MIN |-> 1,
   DOM_NODES_GOOD |-> 800, DOM_NODES_BAD |-> 1500]

MOBILE_THRESHOLDS ==
  [DOM_NODES_GOOD |-> 1200, DOM_NODES_BAD |-> 2500,
   TOUCH_TARGETS_TOO_SMALL_GOOD |-> 0, TOUCH_TARGETS_TOO_SMALL_BAD |-> 10,
   TEXT_TOO_SMALL_GOOD |-> 0, TEXT_TOO_SMALL_BAD |-> 8] @@ THRESHOLDS

\* Every penalty of calculateUXScore is a whole number of 1 / Scale: Scale
\* is a common multiple of 3, 5, 10, 8, 700 and 1300 (the widths of the
\* bands) and of 10 (the alt-text divisor).
Scale == 3 * 8 * 25 * 7 * 13
Units(x) == x[1] * (Scale \div x[2])
\* the combined penalty is a whole number of 1 / RawDenominator: weights
\* are tenths inside a component and hundredths between components
RawDenominator == 10 * 100 * Scale

\* Array.prototype.sort by descending penalty (stable)
RECURSIVE InsertByPenalty(_, _)
InsertByPenalty(sorted, f) ==
  IF sorted = <<>> THEN <<f>>
  ELSE IF FracLt(Head(sorted).penalty, f.penalty)
    THEN <<f>> \o sorted
    ELSE <<Head(sorted)>> \o InsertByPenalty(Tail(sorted), f)

RECURSIVE SortByPenalty(_)
SortByPenalty(fs) ==
  IF fs = <<>> THEN <<>>
  ELSE InsertByPenalty(SortByPenalty(SubSeq(fs, 1, Len(fs) - 1)), fs[Len(fs)])

Factor(name, value, penalty) ==
  [factor |-> name, value |-> value, penalty |-> penalty]
\* if (cond) factors.push(f)
PushIf(cond, f) == IF cond THEN <<f>> ELSE <<>>

\* a check that also penalises a page with exactly the minimum of CTAs
CtaMissingAtMin(data, T) == data.ctas_above_fold <= T.CTA_ABOVE_FOLD_MIN

CtaMissing(data, T) == data.ctas_above_fold < T.CTA_ABOVE_FOLD_MIN

Null == [null |-> TRUE]

\* a score that is the penalty itself: Math.round(100 * p)
Round100Penalty(p) ==
  LET n == p[1] * (RawDenominator \div p[2])
  IN (n + RawDenominator \div 200) \div (RawDenominator \div 100)

\* Math.round(100 * (1 - p)) for p a whole number of 1 / RawDenominator
Round100(p) ==
  LET n == p[1] * (RawDenominator \div p[2])
  IN (RawDenominator - n + RawDenominator \div 200) \div (RawDenominator \div 100)

calculateUXScore(data, isMobile) ==
  LET T == IF isMobile THEN MOBILE_THRESHOLDS ELSE THRESHOLDS
      violationsByImpact == data.violations
      critical_penalty == penaltyFromMetric(violationsByImpact.critical,
        T.VIOLATIONS_CRITICAL_GOOD, T.VIOLATIONS_CRITICAL_BAD)
      serious_penalty == penaltyFromMetric(violationsByImpact.serious,
        T.VIOLATIONS_SERIOUS_GOOD, T.VIOLATIONS_SERIOUS_BAD)
      moderate_penalty == penaltyFromMetric(violationsByImpact.moderate,
        T.VIOLATIONS_MODERATE_GOOD, T.VIOLATIONS_MODERATE_BAD)
      \* in tenths of a unit: 0.5, 0.3, 0.2
      ACCESSIBILITY_penalty ==
        5 * Units(critical_penalty) + 3 * Units(serious_penalty)
          + 2 * Units(moderate_penalty)
      noCta == CtaMissing(data, T)
      noViewport == ~data.viewport_meta_present
      viewport_penalty == IF isMobile THEN Frac(5, 10) ELSE Frac(3, 10)
      dom_penalty == penaltyFromMetric(data.dom_node_count,
        T.DOM_NODES_GOOD, T.DOM_NODES_BAD)
      USABILITY_penalty ==
        (IF noCta THEN 10 * Units(Frac(4, 10)) ELSE 0)
          + (IF noViewport THEN 10 * Units(viewport_penalty) ELSE 0)
          + 3 * Units(dom_penalty)
      altViolations == data.violations.alt
      alt_penalty == FracMin(One, Frac(altViolations, 10))
      TRUST_penalty == IF altViolations > 0 THEN 10 * Units(alt_penalty) ELSE 0
      hasTouch == isMobile /\ data.touch_targets # Null
                    /\ data.touch_targets.too_small_count > 0
      touch_penalty ==
        IF hasTouch
          THEN penaltyFromMetric(data.touch_targets.too_small_count,
                 MOBILE_THRESHOLDS.TOUCH_TARGETS_TOO_SMALL_GOOD,
                 MOBILE_THRESHOLDS.TOUCH_TARGETS_TOO_SMALL_BAD)
          ELSE Zero
      hasText == isMobile /\ data.text_size_issues # Null
                   /\ data.text_size_issues.too_small_text_count > 0
      text_penalty ==
        IF hasText
          THEN penaltyFromMetric(data.text_size_issues.too_small_text_count,
                 MOBILE_THRESHOLDS.TEXT_TOO_SMALL_GOOD,
                 MOBILE_THRESHOLDS.TEXT_TOO_SMALL_BAD)
          ELSE Zero
      MOBILE_penalty == 5 * Units(touch_penalty) + 5 * Units(text_penalty)
      factors ==
        PushIf(FracLt(Zero, critical_penalty),
               Factor("Critical A11y Violations", violationsByImpact.critical,
                      critical_penalty))
        \o PushIf(FracLt(Zero, serious_penalty),
               Factor("Serious A11y Violations", violationsByImpact.serious,
                      serious_penalty))
        \o PushIf(FracLt(Zero, moderate_penalty),
               Factor("Moderate A11y Violations", violationsByImpact.moderate,
                      moderate_penalty))
        \o PushIf(noCta,
               Factor("No CTA Above Fold", data.ctas_above_fold, Frac(4, 10)))
        \o PushIf(noViewport,
               Factor("Missing Viewport Meta", 0, viewport_penalty))
        \o PushIf(FracLt(Frac(3, 10), dom_penalty),
               Factor("DOM Complexity", data.dom_node_count, dom_penalty))
        \o PushIf(altViolations > 0,
               Factor("Missing Image Alt Text", altViolations, alt_penalty))
        \o PushIf(hasTouch /\ FracLt(Zero, touch_penalty),
               Factor("Touch Targets Too Small",
                      IF hasTouch THEN data.touch_targets.too_small_count ELSE 0,
                      touch_penalty))
        \o PushIf(hasText /\ FracLt(Zero, text_penalty),
               Factor("Text Too Small for Mobile",
                      IF hasText THEN data.text_size_issues.too_small_text_count
                      ELSE 0,
                      text_penalty))
      \* in hundredths: 0.40, 0.25, 0.15, 0.20 and 0.50, 0.30, 0.20
      RAW_SUM ==
        IF isMobile
          THEN 40 * ACCESSIBILITY_penalty + 25 * USABILITY_penalty
                 + 15 * TRUST_penalty + 20 * MOBILE_penalty
          ELSE 50 * ACCESSIBILITY_penalty + 30 * USABILITY_penalty
                 + 20 * TRUST_penalty
      RAW_PENALTY == clamp(Frac(RAW_SUM, RawDenominator), Zero, One)
      score == Round100(RAW_PENALTY)
      accessibility_risk_level ==
        IF violationsByImpact.critical > 0 \/ violationsByImpact.serious > 2
          THEN "high"
        ELSE IF violationsByImpact.serious > 0 \/ violationsByImpact.moderate > 5
          THEN "medium"
        ELSE "low"
      trust ==  Frac(TRUST_penalty, 10 * Scale)
      trust_impact_indicator ==
        IF FracLt(Frac(5, 10), trust) THEN "high"
        ELSE IF FracLt(Frac(2, 10), trust) THEN "medium"
        ELSE "low"
      recommendation_flag ==
        IF score < 50 \/ violationsByImpact.critical > 0 THEN "critical_fixes"
        ELSE IF score < 70 \/ violationsByImpact.serious > 2 THEN "priority_fixes"
        ELSE "minor_fixes"
      sorted == SortByPenalty(factors)
  IN [RAW_PENALTY |-> RAW_PENALTY,
      ret |-> [score |-> score,
               accessibility_risk_level |-> accessibility_risk_level,
               primary_friction_sources |->
                 [i \in 1..Min(5, Len(sorted)) |-> sorted[i].factor],
               trust_impact_indicator |-> trust_impact_indicator,
               recommendation_flag |-> recommendation_flag,
               violations_by_impact |->
                 [k \in {"critical", "serious", "moderate", "minor"} |->
                    violationsByImpact[k]],
               factors |-> sorted]]

\* Inputs: for a band, the values at good, right above it, in the middle
\* and above bad.
Around(good, bad) == {good, good + 1, (good + bad) \div 2, bad + 1}
ImpactCounts ==
  [critical : Around(THRESHOLDS.VIOLATIONS_CRITICAL_GOOD,
                     THRESHOLDS.VIOLATIONS_CRITICAL_BAD),
   serious : Around(THRESHOLDS.VIOLATIONS_SERIOUS_GOOD,
                    THRESHOLDS.VIOLATIONS_SERIOUS_BAD),
   moderate : Around(THRESHOLDS.VIOLATIONS_MODERATE_GOOD,
                     THRESHOLDS.VIOLATIONS_MODERATE_BAD),
   minor : 0..MaxMinor]
\* the image-alt violations are none, some or all of the violations
AltCounts(c) ==
  LET all == c.critical + c.serious + c.moderate + c.minor
  IN {0, all \div 4, all}
ViolationCounts ==
  UNION {{c @@ [alt |-> a] : a \in AltCounts(c)} : c \in ImpactCounts}
TouchTargets ==
  {Null} \cup {[too_small_count |-> n] :
     n \in {0, MOBILE_THRESHOLDS.TOUCH_TARGETS_TOO_SMALL_BAD + 1}}
TextSizeIssues ==
  {Null} \cup {[too_small_text_count |-> n] :
     n \in {MOBILE_THRESHOLDS.TEXT_TOO_SMALL_BAD \div 2,
            MOBILE_THRESHOLDS.TEXT_TOO_SMALL_BAD + 1}}
DomNodeCounts ==
  (Around(THRESHOLDS.DOM_NODES_GOOD, THRESHOLDS.DOM_NODES_BAD)
     \cup Around(MOBILE_THRESHOLDS.DOM_NODES_GOOD,
                 MOBILE_THRESHOLDS.DOM_NODES_BAD))
    \ {THRESHOLDS.DOM_NODES_GOOD + 1, MOBILE_THRESHOLDS.DOM_NODES_GOOD + 1}
UxData ==
  [violations : ViolationCounts,
   ctas_above_fold : 0..2,
   dom_node_count : DomNodeCounts,
   viewport_meta_present : BOOLEAN,
   touch_targets : TouchTargets,
   text_size_issues : TextSizeIssues]

UxNotCalled == [called |-> FALSE]
NoUxInput == [given |-> FALSE]

\* penaltyFromMetric on its own: values and bands in steps of one half
Metrics == (-2)..MaxMetric
Bands == {b \in [good : 0..MaxMetric, bad : 0..MaxMetric] : b.good <= b.bad}
NoBand == [good |-> 0, bad |-> 0]

UxIdle ==
  /\ uxInput = NoUxInput
  /\ uxResult = UxNotCalled
  /\ pmBand = NoBand
  /\ pmCalls = <<>>

notUxVars == <<pipeVars, llmVars, exVars, nlpVars, lateVars>>

UxInit ==
  /\ uxInput \in [data : UxData, isMobile : BOOLEAN]
  /\ uxResult = UxNotCalled
  /\ pmBand = NoBand
  /\ pmCalls = <<>>

CalculateUXScore ==
  /\ uxResult = UxNotCalled
  /\ uxInput # NoUxInput
  /\ uxResult' = calculateUXScore(uxInput.data, uxInput.isMobile)
  /\ UNCHANGED <<uxInput, pmBand, pmCalls, notUxVars>>

UxNext == CalculateUXScore

PenaltyInit ==
  /\ uxInput = NoUxInput
  /\ uxResult = UxNotCalled
  /\ pmBand \in Bands
  /\ pmCalls = <<>>

\* one more call for the band; the last two calls are remembered
PenaltyCall(value) ==
  /\ pmCalls' =
       (IF pmCalls = <<>> THEN <<>> ELSE <<pmCalls[Len(pmCalls)]>>) \o
       <<[value |-> value,
          penalty |-> penaltyFromMetric(value, pmBand.good, pmBand.bad)]>>
  /\ UNCHANGED <<pmBand, uxInput, uxResult, notUxVars>>

PenaltyNext == \E value \in Metrics : PenaltyCall(value)

(* ---------------------------------------------------------------------- *)
(* comparativeAnalyzer.js: generateFallbackComparison                      *)
(* ---------------------------------------------------------------------- *)
\* aggregator?.website_health_score of a report: a number, or missing
NoScore == 0 - 1
HealthScores == 0..MaxScore \cup {NoScore}
\* x || 0
OrZero(x) == IF x = NoScore THEN 0 ELSE x

UserReports == [url : {<<"user", 0>>}, score : HealthScores]
CompetitorReportsOf(n) ==
  {[i \in 1..n |-> [url |-> <<"c", i>>, score |-> f[i]]] :
     f \in [1..n -> HealthScores]}
\* analyze3Competitors hands over 2 or 3 reports
CompetitorReportLists == CompetitorReportsOf(MinSuccessful) \cup CompetitorReportsOf(3)

\* allScores.sort((a, b) => b.score - a.score): descending, stable
RECURSIVE InsertByScore(_, _)
InsertByScore(sorted, s) ==
  IF sorted = <<>> THEN <<s>>
  ELSE IF Head(sorted).score < s.score
    THEN <<s>> \o sorted
    ELSE <<Head(sorted)>> \o InsertByScore(Tail(sorted), s)

RECURSIVE SortByScore(_)
SortByScore(all) ==
  IF all = <<>> THEN <<>>
  ELSE InsertByScore(SortByScore(SubSeq(all, 1, Len(all) - 1)), all[Len(all)])

findIndex(s, Test(_)) ==
  IF \E i \in 1..Len(s) : Test(s[i])
    THEN CHOOSE i \in 1..Len(s) : Test(s[i]) /\ \A j \in 1..(i - 1) : ~Test(s[j])
    ELSE 0

IsUser(s) == s.isUser
ScoreEntryOf(c) == [domain |-> c.url, score |-> OrZero(c.score), isUser |-> FALSE]

\* a ranking built with the user's site after the competitors
generateFallbackComparisonUserLast(userReport, reports) ==
  LET userScore == OrZero(userReport.score)
      allScores == SortByScore(
        [i \in 1..Len(reports) |-> ScoreEntryOf(reports[i])] \o
        <<[domain |-> userReport.url, score |-> userScore, isUser |-> TRUE]>>)
      userRank == findIndex(allScores, IsUser)
  IN [overall_ranking |->
        [idx \in 1..Len(allScores) |->
           [position |-> idx, domain |-> allScores[idx].domain,
            score |-> allScores[idx].score]],
      your_competitive_position |-> [rank |-> userRank, score |-> userScore]]

generateFallbackComparison(userReport, reports) ==
  LET userScore == OrZero(userReport.score)
      allScores == SortByScore(
        <<[domain |-> userReport.url, score |-> userScore, isUser |-> TRUE]>> \o
        [i \in 1..Len(reports) |-> ScoreEntryOf(reports[i])])
      userRank == findIndex(allScores, IsUser)
  IN [overall_ranking |->
        [idx \in 1..Len(allScores) |->
           [position |-> idx, domain |-> allScores[idx].domain,
            score |-> allScores[idx].score]],
      your_competitive_position |-> [rank |-> userRank, score |-> userScore]]

notCmpVars == <<pipeVars, llmVars, exVars, nlpVars, uxVars, enVars, dashVars, saVars>>

NoCmpInput == [given |-> FALSE]
CmpNotCalled == [called |-> FALSE]

CmpIdle ==
  /\ cmpInput = NoCmpInput
  /\ cmpResult = CmpNotCalled

CmpInit ==
  /\ cmpInput \in [userReport : UserReports,
                   competitorReports : CompetitorReportLists,
                   ai : ComparisonResponses]
  /\ cmpResult = CmpNotCalled

\* generateComparison settles: the parsed AI comparison, or the fallback
GenerateComparison ==
  /\ cmpResult = CmpNotCalled
  /\ cmpInput # NoCmpInput
  /\ cmpResult' =
       IF generateComparison(cmpInput.ai) = "ai"
         THEN [source |-> "ai"]
         ELSE [source |-> "fallback"] @@
              generateFallbackComparison(cmpInput.userReport,
                                         cmpInput.competitorReports)
  /\ UNCHANGED <<cmpInput, notCmpVars>>

CmpNext == GenerateComparison

(* ---------------------------------------------------------------------- *)
(* moduleEnhancer.js: enhanceModulesWithAI                                 *)
(* ---------------------------------------------------------------------- *)
ModuleNames == {"performance", "seo", "ux", "content"}

\* the rule-based issues or fixes of a module
RuleItems(kind, n) == [i \in 1..n |-> [title |-> <<kind, i>>]]
AbsentList == [present |-> FALSE, items |-> <<>>]
\* a module result, its issues and fixes absent or equally long
ModuleResults ==
  {[score |-> 50, issues |-> AbsentList, fixes |-> AbsentList]} \cup
  {[score |-> 50,
    issues |-> [present |-> TRUE, items |-> RuleItems("issue", n)],
    fixes |-> [present |-> TRUE, items |-> RuleItems("fix", n)]] :
     n \in 0..MaxRuleItems}

\* how the completion of a module settles: it rejects, or resolves with a
\* value that is not a string, with an object that has the keys, with prose
Completions ==
  {[rejects |-> TRUE, out |-> [isString |-> FALSE, text |-> <<>>]],
   [rejects |-> FALSE, out |-> [isString |-> FALSE, text |-> <<>>]],
   [rejects |-> FALSE, out |-> [isString |-> TRUE, text |-> <<"f", "{", "k", "}", "f">>]],
   [rejects |-> FALSE, out |-> [isString |-> TRUE, text |-> <<"p">>]]}

\* generateCompletion(...).then(safeParse).catch(() => ({issues: [], fixes: []}))
ParsedOrEmpty(completion) ==
  IF completion.rejects THEN NoItems ELSE safeParse(completion.out)

\* a tag that leaves the items as they are
tagNone(arr) == [i \in 1..Len(arr) |-> [item |-> arr[i]]]

\* arr.map(item => ({ ...item, ai: true }))
tag(arr) == [i \in 1..Len(arr) |-> [item |-> arr[i], ai |-> TRUE]]

\* list || []
OrEmpty(list) == IF list.present THEN list.items ELSE <<>>

\* { ...module, issues: [...], fixes: [...] }
Enhanced(module, ai) ==
  [module EXCEPT
     !.issues = [present |-> TRUE, items |-> OrEmpty(module.issues) \o tag(ai.issues)],
     !.fixes = [present |-> TRUE, items |-> OrEmpty(module.fixes) \o tag(ai.fixes)]]

notEnVars == <<pipeVars, llmVars, exVars, nlpVars, uxVars, cmpVars, dashVars, saVars>>

NoEnInput == [given |-> FALSE]
EnIdleResult == [state |-> "idle"]

EnIdle ==
  /\ enInput = NoEnInput
  /\ enResult = EnIdleResult

EnInit ==
  /\ enInput \in [modules : [ModuleNames -> ModuleResults],
                  completions : [ModuleNames -> Completions],
                  hasKey : BOOLEAN]
  /\ enResult = EnIdleResult

\* lines 148-172: without a key the argument itself is returned, otherwise
\* the four completions are started and awaited
enhanceModulesWithAI ==
  /\ enResult = EnIdleResult
  /\ enInput # NoEnInput
  /\ enResult' =
       IF ~enInput.hasKey
         THEN [state |-> "returned", modules |-> enInput.modules]
         ELSE [state |-> "awaiting"]
  /\ UNCHANGED <<enInput, notEnVars>>

\* lines 172-203: Promise.all has resolved, the AI items are merged
EnhanceReturn ==
  /\ enResult = [state |-> "awaiting"]
  /\ enResult' =
       [state |-> "returned",
        modules |-> [m \in ModuleNames |->
                       Enhanced(enInput.modules[m],
                                ParsedOrEmpty(enInput.completions[m]))]]
  /\ UNCHANGED <<enInput, notEnVars>>

EnNext == enhanceModulesWithAI \/ EnhanceReturn

(* ---------------------------------------------------------------------- *)
(* AnalyzerRedirect.tsx: the polling effect of CompetitorDashboard         *)
(* ---------------------------------------------------------------------- *)
\* the status of the persisted comparison (routes/competitor.js 38, 81, 89)
Statuses == {"analyzing", "completed", "failed"}
TerminalStatuses == {"completed", "failed"}
\* what a fetch gives: the record with its status, a body without
\* comparison (404, 500), or a rejected fetch
NoComparison == "no comparison"
FetchThrows == "fetch throws"
NotLoaded == "not loaded"

notDashVars == <<pipeVars, llmVars, exVars, nlpVars, uxVars, cmpVars, enVars, saVars>>

DashIdle ==
  /\ srvStatus = "analyzing"
  /\ dashMounted = FALSE
  /\ dashInterval = FALSE
  /\ dashFlight = 0
  /\ dashComparison = NotLoaded
  /\ dashPolls = 0
  /\ dashUpdates = 0

\* lines 101-146: the effect has run: the first fetch is in flight and the
\* interval is set
DashInit ==
  /\ srvStatus \in Statuses
  /\ dashMounted = TRUE
  /\ dashInterval = TRUE
  /\ dashFlight = 1
  /\ dashComparison = NotLoaded
  /\ dashPolls = 1
  /\ dashUpdates = 0

\* routes/competitor.js 81, 89: the background continuation ends
ServerFinishes(status) ==
  /\ srvStatus = "analyzing"
  /\ srvStatus' = status
  /\ UNCHANGED <<dashMounted, dashInterval, dashFlight, dashComparison,
                 dashPolls, dashUpdates, notDashVars>>

\* lines 142-146: the interval fires after 3 seconds and fetches
IntervalFires ==
  /\ dashInterval
  /\ dashPolls < MaxPolls
  /\ dashFlight' = dashFlight + 1
  /\ dashPolls' = dashPolls + 1
  /\ UNCHANGED <<srvStatus, dashMounted, dashInterval, dashComparison,
                 dashUpdates, notDashVars>>

\* lines 105-136: a fetch in flight settles with data
FetchSettles(data) ==
  /\ dashFlight > 0
  /\ dashFlight' = dashFlight - 1
  /\ IF ~dashMounted
       THEN UNCHANGED <<dashComparison, dashInterval, dashUpdates>>
       ELSE IF data \in Statuses
         THEN /\ dashComparison' = data
              /\ dashUpdates' = dashUpdates + 1
              /\ dashInterval' = IF data = "completed" THEN FALSE ELSE dashInterval
         ELSE /\ dashUpdates' = dashUpdates + 1
              /\ UNCHANGED <<dashComparison, dashInterval>>
  /\ UNCHANGED <<srvStatus, dashMounted, dashPolls, notDashVars>>

\* lines 148-154: the cleanup of the effect
Unmount ==
  /\ dashMounted
  /\ dashMounted' = FALSE
  /\ dashInterval' = FALSE
  /\ UNCHANGED <<srvStatus, dashFlight, dashComparison, dashPolls,
                 dashUpdates, notDashVars>>

DashNext ==
  \/ \E status \in TerminalStatuses : ServerFinishes(status)
  \/ IntervalFires
  \/ FetchSettles(srvStatus)
  \/ \E data \in {NoComparison, FetchThrows} : FetchSettles(data)
  \/ Unmount

(* ---------------------------------------------------------------------- *)
(* sentimentAnalyzer.js                                                    *)
(* ---------------------------------------------------------------------- *)
\* two of the positive words, one of the negative words, one of neither
positiveWords == {"great", "love"}
negativeWords == {"bad"}
Words == positiveWords \cup negativeWords \cup {"the"}
\* a text as text.toLowerCase().split(/\W+/) gives it
SentimentTexts == UNION {[1..n -> Words] : n \in 0..MaxWords}

RECURSIVE CountIn(_, _)
CountIn(words, list) ==
  IF words = <<>> THEN 0
  ELSE (IF Head(words) \in list THEN 1 ELSE 0) + CountIn(Tail(words), list)

\* Math.round((0.6 + ratio * 0.3) * 100) for ratio = part / total
Confidence(part, total) == (2 * (60 * total + 30 * part) + total) \div (2 * total)

ruleBasedSentiment(words) ==
  LET posCount == CountIn(words, positiveWords)
      negCount == CountIn(words, negativeWords)
      total == IF posCount + negCount = 0 THEN 1 ELSE posCount + negCount
  IN IF 10 * posCount > 6 * total
       THEN [label |-> "POSITIVE", confidence |-> Confidence(posCount, total),
             by |-> "rules"]
     ELSE IF 10 * posCount < 4 * total
       THEN [label |-> "NEGATIVE",
             confidence |-> Confidence(total - posCount, total), by |-> "rules"]
     ELSE [label |-> "NEUTRAL", confidence |-> 55, by |-> "rules"]

\* what the model answers when its call succeeds: the top label and
\* Math.round(top.score * 100)
ModelAnswers ==
  [label : {"POSITIVE", "NEGATIVE"}, confidence : {50, 99}, by : {"model"}]

notSaVars == <<pipeVars, llmVars, exVars, nlpVars, uxVars, cmpVars, enVars, dashVars>>

NoSaInput == [given |-> FALSE]
SaIdleResult == [state |-> "idle"]

SaIdle ==
  /\ saInput = NoSaInput
  /\ saResult = SaIdleResult

SaInit ==
  /\ saInput \in [text : SentimentTexts, hasKey : BOOLEAN]
  /\ saResult = SaIdleResult

\* lines 17-41: without HF_API_KEY the rules answer, otherwise the model is
\* called
analyzeSentiment ==
  /\ saResult = SaIdleResult
  /\ saInput # NoSaInput
  /\ saResult' =
       IF ~saInput.hasKey
         THEN [state |-> "returned", value |-> ruleBasedSentiment(saInput.text)]
         ELSE [state |-> "fetching"]
  /\ UNCHANGED <<saInput, notSaVars>>

\* lines 43-56: the model answered
SentimentModelAnswers(answer) ==
  /\ saResult = [state |-> "fetching"]
  /\ saResult' = [state |-> "returned", value |-> answer]
  /\ UNCHANGED <<saInput, notSaVars>>

\* lines 43-45, 57-60: the call failed, timed out or was not ok
SentimentModelFails ==
  /\ saResult = [state |-> "fetching"]
  /\ saResult' = [state |-> "returned", value |-> ruleBasedSentiment(saInput.text)]
  /\ UNCHANGED <<saInput, notSaVars>>

SaNext ==
  \/ analyzeSentiment
  \/ \E answer \in ModelAnswers : SentimentModelAnswers(answer)
  \/ SentimentModelFails

LateIdle == CmpIdle /\ EnIdle /\ DashIdle /\ SaIdle

\* the components that a specification leaves alone
OtherIdle == ExIdle /\ NlpIdle /\ UxIdle /\ LateIdle

(* ---------------------------------------------------------------------- *)
(* Specifications                                                          *)
(* ---------------------------------------------------------------------- *)
\* the competitor pipeline, no provider configured
Init == PipeInit /\ LLMIdle /\ apiKey = FALSE /\ hfKey = FALSE /\ OtherIdle
Next == PipeNext
Spec == Init /\ [][Next]_vars

\* every call of the pipeline that can settle does settle
FairSpec ==
  /\ Spec
  /\ \A r \in Reqs :
       /\ WF_vars(\E o \in FindOutcomes : FindByIdReturn(r, o))
       /\ WF_vars(\E o \in SaveOutcomes : SaveNewReturn(r, o))
       /\ WF_vars(\E ai \in DiscoveryResponses : DiscoverReturn(r, ai))
       /\ WF_vars(\E i \in 1..3, s \in {"fulfilled", "rejected"} : TaskSettle(r, i, s))
       /\ WF_vars(AnalyzeReturn(r))
       /\ WF_vars(\E ai \in ComparisonResponses : CompareReturn(r, ai))
       /\ WF_vars(\E o \in SaveOutcomes : SaveFinalReturn(r, o))
       /\ WF_vars(\E o \in SaveOutcomes : SaveFailedReturn(r, o))

\* the completion provider chain, every configuration of the two keys
InitLLM == PipeInit /\ LLMIdle /\ apiKey \in BOOLEAN /\ hfKey \in BOOLEAN /\ OtherIdle
NextLLM == LLMNext
SpecLLM == InitLLM /\ [][NextLLM]_vars

\* every provider call that is answered, and every timer, is handled
FairSpecLLM == SpecLLM /\ WF_vars(NextLLM)

\* the extraction call sites, applied to every model output
InitExtract ==
  /\ PipeInit /\ LLMIdle /\ apiKey = FALSE /\ hfKey = FALSE
  /\ ExInit /\ NlpIdle /\ UxIdle /\ LateIdle
NextExtract == ExNext
SpecExtract == InitExtract /\ [][NextExtract]_vars

\* runNLPAnalysis under several callers, on an empty and on a full cache
InitNLP ==
  /\ PipeInit /\ LLMIdle /\ apiKey = FALSE /\ hfKey = FALSE
  /\ ExIdle /\ NlpInit /\ UxIdle /\ LateIdle
NextNLP == NlpNext
SpecNLP == InitNLP /\ [][NextNLP]_vars

\* one call of runNLPAnalysis, every subset of its tasks failing
NextNLPTasks == NlpTasksNext
SpecNLPTasks == InitNLP /\ [][NextNLPTasks]_vars

\* calculateUXScore, applied once to every input
NextUX == UxNext
InitUX ==
  /\ PipeInit /\ LLMIdle /\ apiKey = FALSE /\ hfKey = FALSE
  /\ ExIdle /\ NlpIdle /\ UxInit /\ LateIdle
SpecUX == InitUX /\ [][NextUX]_vars

\* penaltyFromMetric, called repeatedly for every band
InitPenalty ==
  /\ PipeInit /\ LLMIdle /\ apiKey = FALSE /\ hfKey = FALSE
  /\ ExIdle /\ NlpIdle /\ PenaltyInit /\ LateIdle
NextPenalty == PenaltyNext
SpecPenalty == InitPenalty /\ [][NextPenalty]_vars

\* generateComparison, applied once to every pair of reports and response
InitCompare ==
  /\ PipeInit /\ LLMIdle /\ apiKey = FALSE /\ hfKey = FALSE
  /\ ExIdle /\ NlpIdle /\ UxIdle /\ CmpInit /\ EnIdle /\ DashIdle /\ SaIdle
NextCompare == CmpNext
SpecCompare == InitCompare /\ [][NextCompare]_vars

\* enhanceModulesWithAI, applied once to every input
InitEnhance ==
  /\ PipeInit /\ LLMIdle /\ apiKey = FALSE /\ hfKey = FALSE
  /\ ExIdle /\ NlpIdle /\ UxIdle /\ CmpIdle /\ EnInit /\ DashIdle /\ SaIdle
NextEnhance == EnNext
SpecEnhance == InitEnhance /\ [][NextEnhance]_vars

\* the dashboard polling a comparison that the server completes or fails
InitDash ==
  /\ PipeInit /\ LLMIdle /\ apiKey = FALSE /\ hfKey = FALSE
  /\ ExIdle /\ NlpIdle /\ UxIdle /\ CmpIdle /\ EnIdle /\ DashInit /\ SaIdle
NextDash == DashNext
SpecDash == InitDash /\ [][NextDash]_vars

\* analyzeSentiment, applied once to every text
InitSentiment ==
  /\ PipeInit /\ LLMIdle /\ apiKey = FALSE /\ hfKey = FALSE
  /\ ExIdle /\ NlpIdle /\ UxIdle /\ CmpIdle /\ EnIdle /\ DashIdle /\ SaInit
NextSentiment == SaNext
SpecSentiment == InitSentiment /\ [][NextSentiment]_vars

(* ---------------------------------------------------------------------- *)
(* Properties of the competitor pipeline                                   *)
(* ---------------------------------------------------------------------- *)
Edges == {<<"pending", "analyzing">>, <<"analyzing", "completed">>,
          <<"analyzing", "failed">>}
FollowsEdge(old, new) == old = None \/ new = old \/ <<old, new>> \in Edges

Answered(r) == pc[r] \notin {"idle", "findById", "saveNew"}
Finished(r) == pc[r] \in {"end", "unhandledRejection"}
Responses(r) == SelectSeq(log[r], LAMBDA e : e \in {"res200", "res400", "res404", "res500"})
PipelineStarted(r) == Includes(log[r], "discovery")
IndexOf(s, e) == CHOOSE i \in 1..Len(s) : s[i] = e

\* C1: every change of a comparison record's status, in the document the
\* handler holds and in the persisted record, follows an edge of
\* pending -> analyzing -> {completed, failed}; in particular a completed or
\* failed record never changes status again, also when a save fails.
C1_StatusFollowsStateMachine ==
  [][\A r \in Reqs :
       /\ FollowsEdge(doc[r].status, doc'[r].status)
       /\ FollowsEdge(db[r].status, db'[r].status)]_vars

\* a pipeline step threw inside the background continuation
StepThrew(r) == competitors[r].kind = "string" \/ competitorReports[r].kind = "threw"

\* C2: when discovery, batch analysis or comparative analysis throws in the
\* background continuation, the continuation sets the status to failed and
\* saves the record; status completed is never persisted and neither
\* competitors nor comparison is attached to the record.
C2_ThrowMarksFailed ==
  \A r \in Reqs :
    StepThrew(r) =>
      /\ doc[r].status = "failed"
      /\ pc[r] \in {"saveFailed", "end", "unhandledRejection"}
      /\ pc[r] = "end" => db[r].status = "failed"
      /\ db[r].status # "completed"
      /\ doc[r].competitors = <<>> /\ doc[r].comparison = None
      /\ db[r].competitors = <<>> /\ db[r].comparison = None

C2_Witness ==
  \E r \in Reqs :
    competitorReports[r].kind = "threw" /\ pc[r] = "end" /\ db[r].status = "failed"

\* C3: once the request has been answered 200, the persisted record
\* eventually has status completed or failed, in every fair execution,
\* including those in which a save of the record throws.
C3_EventuallyTerminal ==
  \A r \in Reqs : Includes(log[r], "res200") ~> (db[r].status \in Terminal)

\* C4 (as stated): 400 when the body has no userReportId, 404 when no report
\* has that id, both without a record and without the pipeline; otherwise
\* one record with status analyzing and the answer 200.
C4_AnswersAsStated ==
  \A r \in Reqs :
    Answered(r) =>
      /\ body[r] = None =>
           Responses(r) = <<"res400">> /\ db[r] = NoDoc /\ ~PipelineStarted(r)
      /\ body[r] # None /\ body[r] \notin ReportIds =>
           Responses(r) = <<"res404">> /\ db[r] = NoDoc /\ ~PipelineStarted(r)
      /\ body[r] \in ReportIds =>
           /\ Responses(r) = <<"res200">>
           /\ db[r] # NoDoc
           /\ pc[r] = "discover" => db[r] = NewComparison("analyzing")

\* C4 (amended): as stated, except that the request is answered 500, without
\* starting the pipeline, when the report lookup or the first save throws.
C4_AnswersUnlessLookupOrSaveThrows ==
  \A r \in Reqs :
    Answered(r) =>
      /\ body[r] = None =>
           Responses(r) = <<"res400">> /\ db[r] = NoDoc /\ ~PipelineStarted(r)
      /\ Responses(r) = <<"res500">> =>
           body[r] # None /\ ~PipelineStarted(r) /\ pc[r] = "end"
      /\ body[r] # None /\ body[r] \notin ReportIds /\ Responses(r) # <<"res500">> =>
           Responses(r) = <<"res404">> /\ db[r] = NoDoc /\ ~PipelineStarted(r)
      /\ body[r] \in ReportIds /\ Responses(r) # <<"res500">> =>
           /\ Responses(r) = <<"res200">>
           /\ db[r] # NoDoc
           /\ PipelineStarted(r)
           /\ pc[r] = "discover" => db[r] = NewComparison("analyzing")

C4_Witness ==
  /\ \E r \in Reqs : body[r] \in ReportIds /\ pc[r] = "discover"
                     /\ Responses(r) = <<"res200">>

\* C5: in an execution that answers 200 the record is saved, then the
\* response is sent, then discovery starts; the id sent refers to a
\* persisted record, and whatever the pipeline does afterwards the request
\* keeps its single response.
C5_SaveRespondDiscover ==
  \A r \in Reqs :
    /\ Len(Responses(r)) <= 1
    /\ PipelineStarted(r) => Includes(log[r], "res200")
    /\ Includes(log[r], "res200") =>
         /\ db[r] # NoDoc
         /\ Includes(log[r], "saved") /\ Includes(log[r], "discovery")
         /\ IndexOf(log[r], "saved") < IndexOf(log[r], "res200")
         /\ IndexOf(log[r], "res200") < IndexOf(log[r], "discovery")
         /\ Responses(r) = <<"res200">>

C5_Witness ==
  \E r \in Reqs : pc[r] = "unhandledRejection" /\ Responses(r) = <<"res200">>

\* indexes of the fulfilled analyses, and the k-th of them in input order
FulfilledAt(an) == {i \in 1..Len(an) : an[i].status = "fulfilled"}
KthFulfilled(an, k) ==
  CHOOSE i \in FulfilledAt(an) : Cardinality({j \in FulfilledAt(an) : j <= i}) = k

\* C6: analyze3Competitors settles only when all of its (at most 3)
\* analyses have settled; with at least 2 fulfilled it returns exactly the
\* fulfilled reports in input order, with fewer it throws; a rejected
\* analysis takes nothing away from the others.
C6_BatchReturnsSuccessesInOrder ==
  \A r \in Reqs :
    competitorReports[r].kind # None =>
      LET an == analyses[r]
          n == Cardinality(FulfilledAt(an))
      IN /\ Len(an) <= 3
         /\ AllSettled(an)
         /\ n < 2 => competitorReports[r].kind = "threw"
         /\ n >= 2 =>
              /\ competitorReports[r].kind = "array"
              /\ Len(competitorReports[r].items) = n
              /\ \A k \in 1..n :
                   competitorReports[r].items[k] = an[KthFulfilled(an, k)].value

C6_Witness ==
  \E r \in Reqs :
    /\ competitorReports[r].kind = "array"
    /\ Len(analyses[r]) = 3
    /\ analyses[r][1].status = "rejected"
    /\ Len(competitorReports[r].items) = 2

Providers(cs) == [i \in 1..Len(cs) |-> cs[i].provider]
Called(provider) == \E i \in 1..Len(calls) : calls[i].provider = provider
CalledAndFailed(provider) ==
  \E i \in 1..Len(calls) : calls[i].provider = provider /\ calls[i].outcome \in Failures

\* C8: generateCompletion never rejects, whatever keys are configured and
\* however the provider calls end; when no provider is configured or every
\* configured provider failed it resolves to one fixed mock string,
\* whatever the prompt.
C8_NeverRejectsMockWhenAllFail ==
  /\ result.kind # "rejected"
  /\ result.kind = "resolved" /\ (\A i \in 1..Len(calls) : calls[i].outcome \in Failures)
       => /\ result.value = MockString
          /\ apiKey => CalledAndFailed("groq")
          /\ hfKey => CalledAndFailed("hf")

C8_Witness ==
  /\ apiKey /\ hfKey /\ prompt = "p2"
  /\ result.kind = "resolved" /\ result.value = MockString
  /\ Len(calls) = 2 /\ calls[1].outcome = "non2xx" /\ calls[2].outcome = "throw"

\* C9: the providers are tried in the order Groq, HuggingFace, mock:
\* HuggingFace is called only if Groq is not configured or its call failed,
\* the mock string is returned only if every configured provider failed,
\* and after a provider has succeeded no other provider is called.
C9_FixedProviderOrder ==
  /\ Providers(calls) \in {<<>>, <<"groq">>, <<"hf">>, <<"groq", "hf">>}
  /\ Called("groq") => apiKey
  /\ Called("hf") => hfKey /\ (~apiKey \/ CalledAndFailed("groq"))
  /\ \A i \in 1..Len(calls) : i < Len(calls) => calls[i].outcome \in Failures
  /\ result.kind = "resolved" /\ result.value = MockString =>
       /\ apiKey => CalledAndFailed("groq")
       /\ hfKey => CalledAndFailed("hf")
  /\ result.kind = "resolved" /\ result.value.src \in {"groq", "hf"} =>
       calls[Len(calls)].provider = result.value.src

C9_Witness ==
  /\ result.kind = "resolved" /\ result.value.src = "hf"
  /\ Providers(calls) = <<"groq", "hf">>
  /\ calls[1].outcome = "network_error"

\* C10: every provider call is bounded by a timeout, so a call that is
\* never answered is abandoned and generateCompletion eventually resolves
\* in every execution.
C10_AlwaysResolves ==
  (result.kind = "pending") ~> (result.kind = "resolved")

(* ---------------------------------------------------------------------- *)
(* Properties of the extraction call sites                                 *)
(* ---------------------------------------------------------------------- *)
RegexSites == {"safeParse", "discovery", "comparison"}
\* the text a call site looks at: safeParse strips the code fences first
SiteText(site) == IF site = "safeParse" THEN StripFences(exInput.text) ELSE exInput.text

SiteFallback(site) ==
  CASE site = "safeParse" -> NoItems
    [] site = "discovery" -> useFallbackCompetitors(Reports["r1"].url)
    [] site = "comparison" -> [comparison |-> "fallback"]
    [] site = "insights" -> InsightParseFallback
SiteObject(site) ==
  CASE site = "safeParse" -> AiItems
    [] site = "discovery" -> [kind |-> "array", items |-> SubSeq(AiCompetitors, 1, 3)]
    [] site = "comparison" -> [comparison |-> "ai"]
    [] site = "insights" -> InsightData

Braces(t) == Positions(t, "{") \cup Positions(t, "}")
\* the part of a text from its first to its last brace
Enclosed(t) == SubSeq(t, SetMin(Braces(t)), SetMax(Braces(t)))
\* some "{" and a later "}" of the text enclose valid JSON
EnclosesValidJson(t) ==
  \E i \in Positions(t, "{"), j \in Positions(t, "}") :
    i < j /\ JsonParse(SubSeq(t, i, j)).ok
\* prose without braces around one valid JSON object
ProseAroundObject(t) == Braces(t) # {} /\ JsonParse(Enclosed(t)).ok

\* C11: at the three call sites that take {...} out of model output, every
\* input yields the call site's fallback or the parsed object and never an
\* exception: the fallback for a value that is not a string, for text
\* without "{", for braces that enclose invalid JSON and for an object
\* without the required keys; the object for prose around one valid object.
C11_ExtractionFallsBack ==
  \A site \in RegexSites :
    exResult[site] # NotCalled =>
      LET t == SiteText(site) IN
        /\ exResult[site] # Threw
        /\ exResult[site] \in {SiteFallback(site), SiteObject(site)}
        /\ ~exInput.isString => exResult[site] = SiteFallback(site)
        /\ Positions(t, "{") = {} => exResult[site] = SiteFallback(site)
        /\ ~EnclosesValidJson(t) => exResult[site] = SiteFallback(site)
        /\ ProseAroundObject(t) /\ ~JsonParse(Enclosed(t)).hasKeys =>
             exResult[site] = SiteFallback(site)
        /\ exInput.isString /\ ProseAroundObject(t) /\ JsonParse(Enclosed(t)).hasKeys =>
             exResult[site] = SiteObject(site)

C11_Witness ==
  /\ exInput.text = <<"p", "{", "k", "}">>
  /\ \A site \in RegexSites : exResult[site] = SiteObject(site)

\* C12: when the model output contains a well-formed JSON object with the
\* required keys as its first balanced {...} span, whatever text, braces
\* included, precedes or follows it, each of the four call sites returns
\* that object and not its fallback.
C12_FirstBalancedSpanParsed ==
  \A site \in Sites :
    /\ exResult[site] # NotCalled
    /\ exInput.isString
    /\ FirstBalancedMatch(SiteText(site)).found
    /\ JsonParse(FirstBalancedMatch(SiteText(site)).span).hasKeys
    => exResult[site] = SiteObject(site)

(* ---------------------------------------------------------------------- *)
(* Properties of runNLPAnalysis and its cache                              *)
(* ---------------------------------------------------------------------- *)
NlpReturned(c) == nlpCall[c].pc = "returned" /\ nlpCall[c].text.long
\* the call ran the four tasks itself
Computed(c) == NlpReturned(c) /\ nlpCall[c].ret.id = c

\* C13: of two calls with the same text (20 non-blank characters or more)
\* made less than CACHE_TTL apart (here: the clock has moved by less than
\* CACHE_TTL since the first state), the second returns the object the
\* first returned, and the four tasks run once, also when the second call
\* starts before the first has finished.
C13_SecondCallSharesResult ==
  \A c1 \in NlpCalls, c2 \in NlpCalls :
    ( /\ c1 < c2
      /\ NlpReturned(c1) /\ NlpReturned(c2)
      /\ nlpCall[c1].text = nlpCall[c2].text
      /\ now - 1 < CACHE_TTL )
    => /\ nlpCall[c2].ret = nlpCall[c1].ret
       /\ ~(Computed(c1) /\ Computed(c2))

Starts(c) == nlpCall[c].pc = "idle" /\ nlpCall'[c].pc # "idle" /\ nlpCall'[c].text.long
Finishes(c) == nlpCall[c].pc = "tasks" /\ nlpCall'[c].pc = "returned"
EntryOf(cache, text) == cacheGet(cache, cacheKey(text))

\* C14: a call returns the cached entry only while now - ts is below
\* CACHE_TTL; when the entry of its key has expired or is not in the cache
\* the call runs the tasks again, and on finishing stores its result under
\* the same key with the time of the store.
C14_CachedOnlyWhileFresh ==
  [][\A c \in NlpCalls :
       /\ Starts(c) =>
            LET text == nlpCall'[c].text
                key == cacheKey(text)
                inTtl == /\ cacheHas(nlpCache, key)
                         /\ now - cacheGet(nlpCache, key).ts < CACHE_TTL
            IN /\ nlpCall'[c].pc = "returned" =>
                    inTtl /\ nlpCall'[c].ret = cacheGet(nlpCache, key).data
               /\ ~inTtl => nlpCall'[c].pc = "tasks"
       /\ Finishes(c) =>
            LET text == nlpCall[c].text
            IN /\ cacheHas(nlpCache', cacheKey(text))
               /\ EntryOf(nlpCache', text).ts = now
               /\ EntryOf(nlpCache', text).data = nlpCall'[c].ret
               /\ nlpCall'[c].ret.id = c
    ]_vars

\* the entry of key a that the full cache began with has expired, and a
\* call for t1 has computed and stored a new one
C14_Witness ==
  \E c \in NlpCalls :
    /\ Computed(c)
    /\ nlpCall[c].text.id = "t1"
    /\ now >= CACHE_TTL
    /\ Len(nlpCache) = CACHE_MAX
    /\ nlpCache[1].key = <<"a", 0>>
    /\ nlpCache[1].ts >= CACHE_TTL
    /\ nlpCache[1].data = nlpCall[c].ret

Keys(cache) == {cache[i].key : i \in 1..Len(cache)}
TsOf(cache, key) == cacheGet(cache, key).ts

\* C15: between the steps of the calls the cache holds at most CACHE_MAX
\* entries; the entries a step removes are no younger than any entry
\* that stays, and the entry the step stored stays.
C15_PruneRemovesOldest ==
  /\ Len(nlpCache) <= CACHE_MAX
  /\ [][/\ Len(nlpCache') <= CACHE_MAX
        /\ \A c \in NlpCalls :
             Finishes(c) =>
               /\ cacheKey(nlpCall[c].text) \in Keys(nlpCache')
               /\ \A gone \in Keys(nlpCache) \ Keys(nlpCache') :
                    \A kept \in Keys(nlpCache') :
                      TsOf(nlpCache, gone) <= TsOf(nlpCache', kept)
     ]_vars

\* the full cache has taken one more key: its oldest entry (key a) is gone,
\* the new entry is the last one
C15_Witness ==
  /\ Len(nlpCache) = CACHE_MAX
  /\ <<"a", 0>> \notin Keys(nlpCache)
  /\ nlpCache[CACHE_MAX].key = <<"b", 0>>
  /\ \E c \in NlpCalls : Computed(c) /\ nlpCall[c].text.id = "t3"

\* C16: whichever of the four tasks fail, the call resolves with the seven
\* fields, the fields of the tasks that succeeded hold their results, and
\* the result is stored in the cache.
C16_TaskFailuresIsolated ==
  [][\A c \in NlpCalls :
       /\ nlpCall'[c].pc # "rejected"
       /\ nlpCall[c].pc = "tasks" /\ nlpCall'[c].pc # "tasks" =>
            LET text == nlpCall[c].text
                res == nlpCall'[c].ret
            IN /\ nlpCall'[c].pc = "returned"
               /\ DOMAIN res.fields = FieldNames
               /\ \A task \in Tasks \ nlpCall'[c].failed :
                    res.fields[task] = TaskResult(task, text)
               /\ cacheHas(nlpCache', cacheKey(text))
               /\ EntryOf(nlpCache', text).data = res
    ]_vars

\* a call has returned although three of its four tasks failed
C16_Witness ==
  /\ Computed(1)
  /\ nlpCall[1].failed = {"sentiment", "entities", "topics"}
  /\ nlpCall[1].ret.fields.summary = TaskResult("summary", nlpCall[1].text)
  /\ cacheHas(nlpCache, cacheKey(nlpCall[1].text))

(* ---------------------------------------------------------------------- *)
(* Properties of the UX module                                             *)
(* ---------------------------------------------------------------------- *)
InUnitInterval(x) == FracLeq(Zero, x) /\ FracLeq(x, One)
Monotone ==
  \A i \in 1..Len(pmCalls), j \in 1..Len(pmCalls) :
    pmCalls[i].value <= pmCalls[j].value
      => FracLeq(pmCalls[i].penalty, pmCalls[j].penalty)
Linear(call) ==
  pmBand.good < call.value /\ call.value < pmBand.bad
    => FracEq(call.penalty, Frac(call.value - pmBand.good,
                                 pmBand.bad - pmBand.good))

\* C17 as stated: for every band with good <= bad and every value the
\* penalty lies in [0,1], is monotone non-decreasing in the value, is 0 at
\* good and 1 at bad, and is (v - good) / (bad - good) strictly between.
C17_PenaltyBand ==
  /\ Monotone
  /\ \A i \in 1..Len(pmCalls) :
       /\ InUnitInterval(pmCalls[i].penalty)
       /\ pmCalls[i].value = pmBand.good => FracEq(pmCalls[i].penalty, Zero)
       /\ pmCalls[i].value = pmBand.bad => FracEq(pmCalls[i].penalty, One)
       /\ Linear(pmCalls[i])

\* C17 amended: the penalty at bad is 1 when good < bad; in a band with
\* good = bad the penalty at that value is 0.
C17_PenaltyBandUnlessEmpty ==
  /\ Monotone
  /\ \A i \in 1..Len(pmCalls) :
       /\ InUnitInterval(pmCalls[i].penalty)
       /\ pmCalls[i].value = pmBand.good => FracEq(pmCalls[i].penalty, Zero)
       /\ pmCalls[i].value = pmBand.bad =>
            FracEq(pmCalls[i].penalty,
                   IF pmBand.good < pmBand.bad THEN One ELSE Zero)
       /\ Linear(pmCalls[i])

\* a call strictly inside the band after a call at bad, and the band
\* penalty(1.5, 0, 3) = 0.5 of the documentation (in halves)
C17_Witness ==
  /\ pmBand = [good |-> 0, bad |-> 6]
  /\ Len(pmCalls) = 2
  /\ pmCalls[1].value = pmBand.bad /\ FracEq(pmCalls[1].penalty, One)
  /\ pmCalls[2].value = 3 /\ FracEq(pmCalls[2].penalty, Frac(1, 2))

UxCalled == uxResult # UxNotCalled

\* C18: in both scan modes the combined penalty after the clamp is in
\* [0,1] and the score is an integer from 0 to 100.
C18_ScoreInRange ==
  UxCalled =>
    /\ InUnitInterval(uxResult.RAW_PENALTY)
    /\ uxResult.ret.score \in 0..100

\* a mobile scan whose penalties add up to more than 1: the score is 0
C18_Witness ==
  /\ UxCalled
  /\ uxInput.isMobile
  /\ ~uxInput.data.viewport_meta_present
  /\ uxInput.data.ctas_above_fold = 0
  /\ uxInput.data.dom_node_count > MOBILE_THRESHOLDS.DOM_NODES_BAD
  /\ uxInput.data.violations.alt >= 10
  /\ uxResult.ret.score = 0

CleanDesktop ==
  /\ ~uxInput.isMobile
  /\ \A k \in DOMAIN uxInput.data.violations : uxInput.data.violations[k] = 0
  /\ uxInput.data.viewport_meta_present
  /\ uxInput.data.ctas_above_fold >= 1
  /\ uxInput.data.dom_node_count <= THRESHOLDS.DOM_NODES_GOOD

\* C19: a desktop scan with no violations, the viewport meta, a CTA above
\* the fold and at most 800 DOM nodes scores 100 with risk level low, flag
\* minor_fixes and no friction sources.
C19_CleanPageScores100 ==
  UxCalled /\ CleanDesktop =>
    /\ uxResult.ret.score = 100
    /\ uxResult.ret.accessibility_risk_level = "low"
    /\ uxResult.ret.recommendation_flag = "minor_fixes"
    /\ uxResult.ret.primary_friction_sources = <<>>

\* such a scan, with exactly one CTA above the fold and 800 nodes
C19_Witness ==
  /\ UxCalled /\ CleanDesktop
  /\ uxInput.data.ctas_above_fold = 1
  /\ uxInput.data.dom_node_count = THRESHOLDS.DOM_NODES_GOOD
  /\ uxResult.ret.score = 100

(* ---------------------------------------------------------------------- *)
(* Saves of the background continuation                                    *)
(* ---------------------------------------------------------------------- *)
\* the write attaches the competitors and leaves the status analyzing
AttachesCompetitors(old, new) ==
  /\ old.competitors = <<>> /\ new.competitors # <<>>
  /\ new.status = "analyzing" /\ new.comparison = None
\* the write attaches the comparison to a record that has its competitors
AttachesComparison(old, new) ==
  /\ old.competitors # <<>> /\ new.competitors = old.competitors
  /\ new.comparison # None /\ new.status = "completed"

\* C20: the continuation changes the persisted record of an analyzing
\* comparison by a save that attaches the competitors (status still
\* analyzing), and later by a save that attaches the comparison and sets
\* completed, or by a save that sets failed: a record becomes completed only
\* after a reader could see it analyzing with its competitors.
C20_TwoSavesByContinuation ==
  [][\A r \in Reqs :
       db[r].status = "analyzing" /\ db'[r] # db[r] =>
         \/ AttachesCompetitors(db[r], db'[r])
         \/ AttachesComparison(db[r], db'[r])
         \/ db'[r].status = "failed"
    ]_vars

(* ---------------------------------------------------------------------- *)
(* Competitor entries of the record                                        *)
(* ---------------------------------------------------------------------- *)
\* the entry carries the reason of the candidate its report was made from
PairsReportWithCandidate(entry) == entry.domain = NormalizeUrl(entry.reason.of)
MethodMatchesOrigin(entry) ==
  entry.discovery_method = "fallback" <=> entry.reason.fallback

Buckets == {FALLBACK_COMPETITORS[k] : k \in DOMAIN FALLBACK_COMPETITORS}
IsFallbackBucket(items) ==
  /\ Domains(items) \in Buckets
  /\ \A i \in 1..Len(items) : items[i].reason.fallback
IsAiPrefix(items) ==
  /\ Len(items) \in 2..3
  /\ items = SubSeq(AiCompetitors, 1, Len(items))

\* C22: whatever the AI response, discoverTop3Competitors returns a list of
\* 2 or 3 entries: the first up to 3 parsed competitors, or the 3 domains of
\* one fallback bucket, each with a reason marked as fallback.
C22_DiscoveryReturnsList ==
  \A r \in Reqs :
    competitors[r] # NoList =>
      /\ competitors[r].kind = "array"
      /\ Len(competitors[r].items) \in 2..3
      /\ IsAiPrefix(competitors[r].items) \/ IsFallbackBucket(competitors[r].items)

(* ---------------------------------------------------------------------- *)
(* Properties of the fallback comparison                                   *)
(* ---------------------------------------------------------------------- *)
FellBack == cmpResult # CmpNotCalled /\ cmpInput.ai # "valid"
SiteDomains ==
  <<cmpInput.userReport.url>> \o
  [i \in 1..Len(cmpInput.competitorReports) |-> cmpInput.competitorReports[i].url]
StrictlyHigher ==
  {i \in 1..Len(cmpInput.competitorReports) :
     OrZero(cmpInput.competitorReports[i].score) > OrZero(cmpInput.userReport.score)}

\* C23: when the AI comparison is missing, unparsable or lacks a required
\* key, the ranking lists the user site and every competitor report once,
\* with positions 1..N and non-increasing scores, and the user's rank is the
\* user's position: 1 plus the number of competitors with a strictly
\* higher score.
C23_FallbackRanking ==
  FellBack =>
    LET ranking == cmpResult.overall_ranking
        N == Len(SiteDomains)
    IN /\ cmpResult.source = "fallback"
       /\ Len(ranking) = N
       /\ \A d \in 1..N :
            Cardinality({i \in 1..N : ranking[i].domain = SiteDomains[d]}) = 1
       /\ \A i \in 1..N : ranking[i].position = i
       /\ \A i \in 1..(N - 1) : ranking[i].score >= ranking[i + 1].score
       /\ ranking[cmpResult.your_competitive_position.rank].domain
            = cmpInput.userReport.url
       /\ cmpResult.your_competitive_position.rank = 1 + Cardinality(StrictlyHigher)

\* three competitors, one above the user, one level, one without a score
C23_Witness ==
  /\ FellBack
  /\ Len(cmpInput.competitorReports) = 3
  /\ cmpInput.userReport.score = 1
  /\ cmpInput.competitorReports[1].score = 1
  /\ cmpInput.competitorReports[2].score = 2
  /\ cmpInput.competitorReports[3].score = NoScore
  /\ cmpResult.your_competitive_position.rank = 2

(* ---------------------------------------------------------------------- *)
(* Type of the completion                                                  *)
(* ---------------------------------------------------------------------- *)
LacksText(o) == o \in {"no_content", "notext"}

\* C24: generateCompletion resolves to a text string; a 2xx response that
\* lacks the text field counts as a failure of that provider, so no call
\* with such a response is the one that produced the result.
C24_ResolvesToString ==
  result.kind = "resolved" =>
    /\ result.value.type = "string"
    /\ \A i \in 1..Len(calls) :
         LacksText(calls[i].outcome) => result.value.src # calls[i].provider

(* ---------------------------------------------------------------------- *)
(* Friction sources                                                        *)
(* ---------------------------------------------------------------------- *)
ThresholdsOf(isMobile) == IF isMobile THEN MOBILE_THRESHOLDS ELSE THRESHOLDS
\* the signals of the input that add a non-zero amount to the penalty
ContributingSignals ==
  LET d == uxInput.data
      T == ThresholdsOf(uxInput.isMobile)
  IN (IF d.violations.critical > T.VIOLATIONS_CRITICAL_GOOD
            THEN {"Critical A11y Violations"} ELSE {})
       \cup (IF d.violations.serious > T.VIOLATIONS_SERIOUS_GOOD
               THEN {"Serious A11y Violations"} ELSE {})
       \cup (IF d.violations.moderate > T.VIOLATIONS_MODERATE_GOOD
               THEN {"Moderate A11y Violations"} ELSE {})
       \cup (IF d.ctas_above_fold < T.CTA_ABOVE_FOLD_MIN
               THEN {"No CTA Above Fold"} ELSE {})
       \cup (IF ~d.viewport_meta_present THEN {"Missing Viewport Meta"} ELSE {})
       \cup (IF d.dom_node_count > T.DOM_NODES_GOOD THEN {"DOM Complexity"} ELSE {})
       \cup (IF d.violations.alt > 0 THEN {"Missing Image Alt Text"} ELSE {})
       \cup (IF uxInput.isMobile /\ d.touch_targets # Null
                  /\ d.touch_targets.too_small_count > 0
               THEN {"Touch Targets Too Small"} ELSE {})
       \cup (IF uxInput.isMobile /\ d.text_size_issues # Null
                  /\ d.text_size_issues.too_small_text_count > 0
               THEN {"Text Too Small for Mobile"} ELSE {})

\* C25: primary_friction_sources holds at most 5 factor names, the first of
\* the factors in non-increasing order of penalty, and every signal that
\* adds to the total penalty is one of the factors.
C25_FrictionSourcesCoverSignals ==
  UxCalled =>
    LET fs == uxResult.ret.factors
        top == uxResult.ret.primary_friction_sources
    IN /\ Len(top) <= 5
       /\ \A i \in 1..(Len(fs) - 1) : FracLeq(fs[i + 1].penalty, fs[i].penalty)
       /\ top = [i \in 1..Min(5, Len(fs)) |-> fs[i].factor]
       /\ ContributingSignals \subseteq {fs[i].factor : i \in 1..Len(fs)}

(* ---------------------------------------------------------------------- *)
(* Properties of enhanceModulesWithAI                                      *)
(* ---------------------------------------------------------------------- *)
EnReturned == enResult # EnIdleResult /\ enResult.state = "returned"
\* the completion of the module rejected, or its text did not parse
AiFailed(m) == ParsedOrEmpty(enInput.completions[m]) = NoItems
\* out is the input list followed by items that all carry ai: true
ExtendsWithAi(in, out) ==
  LET n == Len(OrEmpty(in))
  IN /\ Len(out.items) >= n
     /\ SubSeq(out.items, 1, n) = OrEmpty(in)
     /\ \A i \in (n + 1)..Len(out.items) :
          "ai" \in DOMAIN out.items[i] /\ out.items[i].ai

PollingOver == ~dashMounted \/ dashComparison \in TerminalStatuses

\* C27: once the dashboard has seen the comparison completed or failed, or
\* is unmounted, it issues no further poll request and updates no state.
C27_NoPollAfterTerminal ==
  [][PollingOver => (dashPolls' = dashPolls /\ dashUpdates' = dashUpdates)]_vars

(* ---------------------------------------------------------------------- *)
(* URLs handed to the analysis job                                         *)
(* ---------------------------------------------------------------------- *)
\* url begins with http:// or https://
HasScheme(url) ==
  /\ Len(url) >= 2
  /\ url[1] = "http"
  /\ \/ url[2] = "://"
     \/ Len(url) >= 3 /\ url[2] = "s" /\ url[3] = "://"

\* C28: every URL handed to the analysis job begins with http:// or
\* https://: a candidate without a scheme has https:// prepended, one with a
\* scheme is handed over as it is, and normalizing the URL again changes
\* nothing.
C28_UrlsCarryScheme ==
  \A r \in Reqs :
    \A i \in 1..Len(analyses[r]) :
      LET url == analyses[r][i].value.url
          candidate == competitors[r].items[i].domain
      IN /\ HasScheme(url)
         /\ HasScheme(candidate) => url = candidate
         /\ ~HasScheme(candidate) => url = Scheme \o candidate
         /\ NormalizeUrl(url) = url

(* ---------------------------------------------------------------------- *)
(* calculateUXScore: the score against a worse page                        *)
(* ---------------------------------------------------------------------- *)
Impacts == {"critical", "serious", "moderate", "minor"}
\* the data with one more violation of impact k, an image-alt one or not
WithViolation(data, k, isAlt) ==
  [data EXCEPT !.violations[k] = @ + 1,
               !.violations.alt = IF isAlt THEN @ + 1 ELSE @]
\* pages that differ from data in one way the claim names
WorsePages(data) ==
  {WithViolation(data, k, isAlt) : k \in Impacts, isAlt \in BOOLEAN}
  \cup {[data EXCEPT !.dom_node_count = n] :
          n \in {m \in DomNodeCounts : m > data.dom_node_count}}
  \cup (IF data.viewport_meta_present
          THEN {[data EXCEPT !.viewport_meta_present = FALSE]} ELSE {})
  \cup (IF data.ctas_above_fold >= 1
          THEN {[data EXCEPT !.ctas_above_fold = 0]} ELSE {})
ScoreOf(data) == calculateUXScore(data, uxInput.isMobile).ret.score

\* C29: in either mode, a page with one more violation of any impact, with
\* more DOM nodes, without the viewport meta tag it had, or without the
\* above-fold CTA it had never scores higher than the page itself.
C29_ScoreNeverIncreases ==
  UxCalled =>
    \A worse \in WorsePages(uxInput.data) : ScoreOf(worse) <= uxResult.ret.score

\* a mobile page with CTA and viewport that loses points in each way
C29_Witness ==
  /\ UxCalled
  /\ uxInput.isMobile
  /\ uxInput.data.viewport_meta_present
  /\ uxInput.data.ctas_above_fold >= 1
  /\ \A k \in {"critical", "serious", "moderate"} :
       ScoreOf(WithViolation(uxInput.data, k, FALSE)) < uxResult.ret.score
  /\ ScoreOf(WithViolation(uxInput.data, "minor", TRUE)) < uxResult.ret.score
  /\ ScoreOf(WithViolation(uxInput.data, "minor", FALSE)) = uxResult.ret.score
  /\ \E n \in DomNodeCounts :
       /\ n > uxInput.data.dom_node_count
       /\ ScoreOf([uxInput.data EXCEPT !.dom_node_count = n]) < uxResult.ret.score
  /\ ScoreOf([uxInput.data EXCEPT !.viewport_meta_present = FALSE])
       < uxResult.ret.score
  /\ ScoreOf([uxInput.data EXCEPT !.ctas_above_fold = 0]) < uxResult.ret.score

(* ---------------------------------------------------------------------- *)
(* Properties of ruleBasedSentiment                                        *)
(* ---------------------------------------------------------------------- *)
ByRules == saResult # SaIdleResult /\ saResult.state = "returned"
             /\ saResult.value.by = "rules"
PosCount == CountIn(saInput.text, positiveWords)
NegCount == CountIn(saInput.text, negativeWords)

\* C30: the rule-based sentiment is NEUTRAL for a text with as many
\* positive as negative words, also with none of either; POSITIVE only if
\* the positive words are more than 60% of the sentiment words, NEGATIVE
\* only if they are less than 40%; the confidence is within 0..100.
C30_RuleBasedSentiment ==
  ByRules =>
    /\ PosCount = NegCount => saResult.value.label = "NEUTRAL"
    /\ saResult.value.label = "POSITIVE" =>
         10 * PosCount > 6 * (PosCount + NegCount)
    /\ saResult.value.label = "NEGATIVE" =>
         10 * PosCount < 4 * (PosCount + NegCount)
    /\ saResult.value.confidence \in 0..100

====
